---------------------------- MODULE Spec2Model ----------------------------
(***************************************************************************)
(* AuraHR resume ingestion and candidate scoring.                          *)
(*                                                                         *)
(* The model follows backend/app/api/v1/endpoints/jobs.py (upload and the  *)
(* background pipeline), candidates.py (status changes made by the API)    *)
(* and backend/app/services/ai_service.py (text extraction, embedding,     *)
(* vector index, scoring).                                                 *)
(*                                                                         *)
(* Abstractions.  A text is a token (a string); what the regular           *)
(* expressions and keyword tables of the service find in a text is given   *)
(* by the tables ContactOf, SkillsOf, NerPersonsOf.  The sentence          *)
(* embedding model is a black box: a vector is the tagged text it was      *)
(* computed from and the cosine similarity of two vectors is the table     *)
(* CosSimPct, in hundredths.  Scores that the code holds as floats are     *)
(* held in hundredths or as exact fractions.  Time stamps (appliedAt,      *)
(* lastActivity, createdAt) are left out of the documents.                 *)
(***************************************************************************)
EXTENDS Integers, Sequences, FiniteSets, TLC

(***************************************************************************)
(* Bounds of the model.                                                    *)
(***************************************************************************)
MaxCandidates == 1
MaxJobs == 1
MaxBatch == 2

(***************************************************************************)
(* Program constants.                                                      *)
(***************************************************************************)
MAX_FILE_SIZE == 10485760

\* Python's None, and a document that is not in a collection.
NoneVal == <<>>

JobIds == 1..MaxJobs
CandidateIds == 1..MaxCandidates

\* str(ObjectId): the hexadecimal rendering, one string per id.
ObjectIdStr(oid) == <<"oid", oid>>

\* ObjectId.is_valid(job_id): 0 stands for a malformed id string.
ObjectIdIsValid(id) == id # 0

(***************************************************************************)
(* Inputs: uploaded files, job descriptions.                               *)
(***************************************************************************)
FileNames == {"cv.pdf", "CV.DOCX", "cv.txt", "cv.png"}

\* The files a client uploads: name, what the file says, and whether the
\* file is damaged so that the library reading it raises.  "x" is a file
\* whose only text is shorter than the cleaning pass keeps.
UploadedFiles ==
    {[filename |-> "cv.pdf", body |-> "RESUME_A", corrupt |-> FALSE],
     [filename |-> "cv.pdf", body |-> "RESUME_B", corrupt |-> FALSE],
     [filename |-> "cv.pdf", body |-> "x", corrupt |-> FALSE],
     [filename |-> "CV.DOCX", body |-> "RESUME_B", corrupt |-> FALSE],
     [filename |-> "CV.DOCX", body |-> "RESUME_A", corrupt |-> TRUE],
     [filename |-> "cv.txt", body |-> "RESUME_A", corrupt |-> FALSE],
     [filename |-> "cv.png", body |-> "RESUME_A", corrupt |-> FALSE]}

\* file.filename.lower() reduced to its extension
LowerExt(filename) ==
    CASE filename = "cv.pdf" -> ".pdf"
      [] filename = "CV.DOCX" -> ".docx"
      [] filename = "cv.txt" -> ".txt"
      [] OTHER -> ".png"

\* file.size as the client reports it; 0 stands for None (not reported).
FileSizes == {0, MAX_FILE_SIZE, MAX_FILE_SIZE + 1}

Descriptions == {"", "JOB_D"}

(***************************************************************************)
(* State.                                                                  *)
(***************************************************************************)
VARIABLES
    job_postings,       \* db.job_postings: job id -> document or NoneVal
    candidates,         \* db.candidates: candidate id -> document or NoneVal
    background_tasks,   \* candidate id -> the pipeline run scheduled for it
    uploads,            \* UPLOAD_DIR: candidate id -> [filename, body]
    embedding_model,    \* ai_service.embedding_model is loaded
    chroma_collection,  \* ai_service.chroma_collection is loaded
    nlp,                \* ai_service.nlp (spaCy) is loaded
    resumes,            \* the "resumes" collection of the vector index
    chats,              \* db.chats
    response,           \* the answer to the last upload request
    embed_cache,        \* embed_cache_dir: cache id -> the vector saved for it
    score_result,       \* the last call of calculate_resume_score and its result
    skills_config       \* config_manager._skills_config, as the entity extractor
                        \* called on its own finds and leaves it

vars == <<job_postings, candidates, background_tasks, uploads,
          embedding_model, chroma_collection, nlp, resumes, chats, response,
          embed_cache, score_result, skills_config>>

\* the state of the scoring engine
scoring == <<embed_cache, score_result>>

(***************************************************************************)
(* Text extraction (ai_service.py).                                        *)
(***************************************************************************)
\* len(text.strip()) of what one backend reads from a file with this body
BodyLen(body) ==
    CASE body = "" -> 0
      [] body = "x" -> 1
      [] body = "RESUME_B" -> 60
      [] OTHER -> 2400

\* The text a PDF backend has accumulated: `copies` readings of `body`,
\* each followed by a line break.
AccLen(body, copies) ==
    IF copies = 0 \/ body = "" THEN 0 ELSE copies * BodyLen(body) + (copies - 1)

\* _clean_extracted_text on `copies` readings of `body`: white space runs
\* (line breaks included) become one blank, so the readings end up on one
\* line, and a line of at most 2 characters is dropped.
CleanExtractedText(body, copies) ==
    CASE copies = 0 \/ body = "" -> ""
      [] body = "x" /\ copies = 1 -> ""
      [] body = "x" /\ copies = 2 -> "x x"
      [] body = "x" /\ copies = 3 -> "x x x"
      [] body = "RESUME_B" /\ copies = 2 -> "RESUME_B RESUME_B"
      [] body = "RESUME_B" /\ copies = 3 -> "RESUME_B RESUME_B RESUME_B"
      [] OTHER -> body

\* extract_text_from_pdf: PyPDF2, pdfplumber, pymupdf in turn, all appending to
\* the same `text`; a corrupt file makes every backend raise.
extract_text_from_pdf(file) ==
    IF file.corrupt THEN ""
    ELSE IF AccLen(file.body, 1) > 100 THEN CleanExtractedText(file.body, 1)
    ELSE IF AccLen(file.body, 2) > 50 THEN CleanExtractedText(file.body, 2)
    ELSE IF AccLen(file.body, 3) > 20 THEN CleanExtractedText(file.body, 3)
    ELSE CleanExtractedText(file.body, 3)

\* extract_text_from_docx: any exception gives ""
extract_text_from_docx(file) ==
    IF file.corrupt THEN "" ELSE CleanExtractedText(file.body, 1)

\* the text with the repetitions of a PDF fallback taken out
BaseText(text) ==
    CASE text \in {"RESUME_B RESUME_B", "RESUME_B RESUME_B RESUME_B"} -> "RESUME_B"
      [] text \in {"x x", "x x x"} -> "x"
      [] OTHER -> text

(***************************************************************************)
(* Entity extraction (ai_service.py).                                      *)
(***************************************************************************)
\* _extract_contact_info: only the keys that were found are present
ContactOf(text) ==
    CASE BaseText(text) = "RESUME_A" ->
            [name |-> "Jane Doe", email |-> "jane@corp.org", phone |-> "98765-43210"]
      [] BaseText(text) = "RESUME_B" -> [phone |-> "12345-67890"]
      [] OTHER -> NoneVal

\* _extract_skills_from_text
SkillsOf(text) ==
    CASE BaseText(text) = "RESUME_A" -> {"Python", "Fastapi"}
      [] BaseText(text) = "RESUME_B" -> {"Python"}
      [] BaseText(text) = "JOB_D" -> {"Python", "Docker"}
      [] BaseText(text) = "RESUME_C" ->
            {"Python", "Docker", "Fastapi", "Java", "Sql", "Aws", "React",
             "Git", "Linux", "Kubernetes"}
      [] BaseText(text) = "JOB_F" ->
            {"Python", "Docker", "Java", "Sql", "Aws", "React", "Git", "Linux"}
      [] BaseText(text) = "RESUME_P" -> {"Python", "Docker"}
      [] BaseText(text) = "RESUME_Q" ->
            {"Python", "Fastapi", "Kubernetes", "Go", "Rust", "Ruby", "Php",
             "Swift", "Kotlin"}
      [] OTHER -> {}

\* the PERSON spans spaCy finds
NerPersonsOf(text) ==
    CASE BaseText(text) = "RESUME_A" -> <<"Jane Doe">>
      [] BaseText(text) = "RESUME_B" -> <<"Bo">>
      [] OTHER -> <<>>

\* extract_entities_from_resume
extract_entities_from_resume(text, nlpLoaded) ==
    LET contact_info == ContactOf(text)
        spacy == IF nlpLoaded THEN NerPersonsOf(text) ELSE <<>>
        PERSON == IF spacy = <<>> /\ "name" \in DOMAIN contact_info
                  THEN <<contact_info.name>> ELSE spacy
    IN  [skills |-> SkillsOf(text),
         contact_info |-> contact_info,
         person_names |-> PERSON]

\* the fallback of process_resume_background_task when extraction raises
FallbackEntities == [skills |-> {}, contact_info |-> NoneVal]

(***************************************************************************)
(* Embedding engine and vector index (ai_service.py).                      *)
(***************************************************************************)
\* dict.get(key, default)
Get(doc, key, default) == IF key \in DOMAIN doc THEN doc[key] ELSE default

\* $set: the fields of `update` replace or extend those of `doc`
SetFields(doc, update) == update @@ doc

\* _preprocess_text_for_embedding: the skills, experience and education
\* sections are put in front of the truncated cleaned text
PreprocessTextForEmbedding(text) == [text |-> text, preprocessed |-> TRUE]

\* embedding_model.encode on a raw text
Encode(text) == [text |-> text, preprocessed |-> FALSE]

\* generate_embedding, once the model is known to be loaded
generate_embedding(text) == PreprocessTextForEmbedding(text)

\* cosine similarity of the embeddings of two texts, in hundredths
TextSimPct(a, b) ==
    LET pair == {BaseText(a), BaseText(b)}
    IN  CASE a = b -> 100
          [] pair = {"JOB_D", "RESUME_A"} -> 80
          [] pair = {"JOB_D", "RESUME_C"} -> 90
          [] pair = {"JOB_D", "RESUME_B"} -> IF "RESUME_B" \in {a, b} THEN 60 ELSE 62
          [] pair = {"JOB_D", "x"} -> -10
          [] pair = {"JOB_E", "x"} -> -100
          [] OTHER -> 30

\* a preprocessed text and a raw text are less alike than two of a kind
CosSimPct(v, w) ==
    IF v.preprocessed = w.preprocessed
    THEN TextSimPct(v.text, w.text)
    ELSE TextSimPct(v.text, w.text) - 5

\* chroma_collection.add as an index that refuses an id it already holds
ChromaAddStrict(collection, id, embedding, document, metadata) ==
    IF \E e \in collection : e.id = id
    THEN [collection |-> collection, raised |-> "DuplicateIDError"]
    ELSE [collection |-> collection \cup
                            {[id |-> id, embedding |-> embedding,
                              document |-> document, metadata |-> metadata]},
          raised |-> ""]

\* chroma_collection.add: the collection after the call and the exception
\* it raises ("" for none).  An id the collection already holds is ignored.
ChromaAdd(collection, id, embedding, document, metadata) ==
    IF \E e \in collection : e.id = id
    THEN [collection |-> collection, raised |-> ""]
    ELSE [collection |-> collection \cup
                            {[id |-> id, embedding |-> embedding,
                              document |-> document, metadata |-> metadata]},
          raised |-> ""]

\* chroma_collection.query with n_results = 1 in cosine space: the entry at
\* the least distance; the index is deterministic, among entries at the same
\* distance it answers the one stored first.
ChromaNearest(collection, embedding) ==
    CHOOSE e \in collection :
        \A o \in collection :
            \/ CosSimPct(embedding, e.embedding) > CosSimPct(embedding, o.embedding)
            \/ /\ CosSimPct(embedding, e.embedding) = CosSimPct(embedding, o.embedding)
               /\ e.id[2] <= o.id[2]

\* search_similar_candidates: similarity_score = 1 - distance
SimilarityScore(e, job_embedding) == CosSimPct(job_embedding, e.embedding)

(***************************************************************************)
(* Exact arithmetic for the scores the code holds as floats: a fraction    *)
(* is a record [n, d] with d > 0, kept in lowest terms.                    *)
(***************************************************************************)
RECURSIVE Gcd(_, _)
Gcd(a, b) == IF b = 0 THEN a ELSE Gcd(b, a % b)

Abs(i) == IF i < 0 THEN -i ELSE i

Q(n, d) ==
    LET g == Gcd(Abs(n), d)
    IN  [n |-> n \div g, d |-> d \div g]

QInt(i) == [n |-> i, d |-> 1]
QAdd(a, b) == Q(a.n * b.d + b.n * a.d, a.d * b.d)
QSub(a, b) == Q(a.n * b.d - b.n * a.d, a.d * b.d)
QMul(a, b) == Q(a.n * b.n, a.d * b.d)
\* a / b for b > 0
QDiv(a, b) == Q(a.n * b.d, a.d * b.n)
QLt(a, b) == a.n * b.d < b.n * a.d
QLe(a, b) == a.n * b.d <= b.n * a.d
QMin(a, b) == IF QLe(a, b) THEN a ELSE b
QMax(a, b) == IF QLe(a, b) THEN b ELSE a
\* int(a) for a >= 0
QFloor(a) == a.n \div a.d

Min(a, b) == IF a <= b THEN a ELSE b
Max(a, b) == IF a <= b THEN b ELSE a

(***************************************************************************)
(* What the patterns and keyword lists of the scoring engine find in a     *)
(* text (ai_service.py).                                                   *)
(***************************************************************************)
\* len(resume_text.split())
WordCount(text) ==
    CASE text \in {"RESUME_A", "RESUME_C", "RESUME_P", "RESUME_Q"} -> 300
      [] text = "JOB_D" -> 120
      [] text = "RESUME_B" -> 10
      [] text = "x" -> 1
      [] OTHER -> 0

\* len(resume_text)
CharCount(text) ==
    CASE text \in {"RESUME_A", "RESUME_C", "RESUME_P", "RESUME_Q"} -> 2400
      [] text = "JOB_D" -> 800
      [] text = "RESUME_B" -> 60
      [] text = "x" -> 1
      [] OTHER -> 0

\* how many of 'experience', 'education', 'skills', 'summary', 'objective'
\* occur in the text
SectionsFound(text) ==
    CASE text \in {"RESUME_A", "RESUME_C", "RESUME_P", "RESUME_Q"} -> 5
      [] text = "JOB_D" -> 2
      [] text = "RESUME_B" -> 1
      [] OTHER -> 0

\* re.search(email_pattern, resume_text), re.search(phone_pattern, resume_text)
HasEmailPattern(text) == text \in {"RESUME_A", "RESUME_C", "RESUME_P", "RESUME_Q"}
HasPhonePattern(text) == text \in {"RESUME_A", "RESUME_B", "RESUME_C"}

\* _extract_experience_years: <<>> is "Not specified", <<n>> is "n years"
ExperienceYearsOf(text) ==
    CASE text \in {"RESUME_A", "RESUME_C", "RESUME_P", "RESUME_Q"} -> <<10>>
      [] text = "JOB_D" -> <<5>>
      [] text = "RESUME_B" -> <<1>>
      [] OTHER -> <<>>

\* _extract_education_level
EducationLevelOf(text) ==
    CASE text \in {"RESUME_A", "RESUME_C", "RESUME_P", "RESUME_Q"} -> "Masters"
      [] text = "RESUME_B" -> "Bachelors"
      [] OTHER -> "Not specified"

\* the numbers the patterns of _calculate_experience_match_score find in the
\* job description (the numbers in front of "years")
YearNumbersIn(job_description) ==
    CASE job_description = "JOB_D" -> {5}
      [] OTHER -> {}

\* how many of 'experience', 'skills', 'education', 'projects',
\* 'certifications' occur in the text
QualitySectionsFound(text) ==
    CASE text \in {"RESUME_A", "RESUME_C", "RESUME_P", "RESUME_Q"} -> 5
      [] text = "JOB_D" -> 2
      [] text = "RESUME_B" -> 1
      [] OTHER -> 0

\* how many of the 10 achievement keywords occur in the text
AchievementsFound(text) ==
    CASE text \in {"RESUME_A", "RESUME_C", "RESUME_P", "RESUME_Q"} -> 10
      [] text = "JOB_D" -> 3
      [] OTHER -> 0

\* how many of 'email', 'phone', 'linkedin', 'github' occur in the text
IndicatorsFound(text) ==
    CASE text \in {"RESUME_A", "RESUME_C", "RESUME_P", "RESUME_Q"} -> 4
      [] text = "RESUME_B" -> 1
      [] OTHER -> 0

\* max of a non-empty set of numbers
SetMax(S) == CHOOSE m \in S : \A o \in S : o <= m

\* _extract_industry_keywords: the industry terms that occur in both texts
IndustryKeywordsOf(resume_text, job_description) ==
    IF resume_text = "RESUME_C" /\ job_description = "JOB_D"
    THEN {"Saas", "Cloud", "Web"}
    ELSE {}

\* _preprocess_resume_data (ai_service.py 1247-1284)
preprocess_resume_data(resume_text, job_description) ==
    [skills |-> SkillsOf(resume_text),
     experience_years |-> ExperienceYearsOf(resume_text),
     education_level |-> EducationLevelOf(resume_text),
     industry_keywords |-> IndustryKeywordsOf(resume_text, job_description)]

\* list[:n]
Take(list, n) == SubSeq(list, 1, Min(n, Len(list)))

\* the list a sequence of `if cond: list.append(item)` builds
When(cond, item) == IF cond THEN <<item>> ELSE <<>>

(***************************************************************************)
(* Scoring, tier A: sentence embeddings (ai_service.py 147-240,            *)
(* 1356-1508).                                                             *)
(***************************************************************************)
\* _cosine_similarity_to_score: (similarity + 1) / 2
cosine_similarity_to_score(job_vec, candidate_vec) ==
    Q(CosSimPct(candidate_vec, job_vec) + 100, 200)

\* np.clip((similarity_scores - 0.4) / 0.6, 0.1, 0.99)
Confidence(similarity_score) ==
    QMin(Q(99, 100),
         QMax(Q(1, 10), QDiv(QSub(similarity_score, Q(4, 10)), Q(6, 10))))

\* _get_recommendation_from_score
get_recommendation_from_score(score) ==
    IF QLe(Q(80, 100), score) THEN "Strong Match - Recommend Interview"
    ELSE IF QLe(Q(65, 100), score) THEN "Good Match - Consider Interview"
    ELSE IF QLe(Q(50, 100), score) THEN "Moderate Match - Review Carefully"
    ELSE IF QLe(Q(35, 100), score) THEN "Weak Match - Consider Only if Desperate"
    ELSE "Poor Match - Not Recommended"

\* f'temp_{i}' for the i-th candidate of the list, counted from 0
TempId(i) ==
    CASE i = 1 -> "temp_0"
      [] i = 2 -> "temp_1"
      [] OTHER -> "temp_2"

\* results.sort(key=lambda x: x['score'], reverse=True): a stable sort,
\* results of equal score keep their order
RECURSIVE SortByScore(_)
SortByScore(results) ==
    IF Len(results) <= 1 THEN results
    ELSE LET sorted == SortByScore(Tail(results))
             head == Head(results)
             before == {k \in 1..Len(sorted) : QLt(head.score, sorted[k].score)}
             n == Cardinality(before)
         IN  SubSeq(sorted, 1, n) \o <<head>> \o SubSeq(sorted, n + 1, Len(sorted))

\* a cache that is never hit
load_cached_embedding_never(cache, candidate_id) == NoneVal

\* _load_cached_embedding: the vector saved under the id, None if there is none
load_cached_embedding(cache, candidate_id) ==
    IF candidate_id \in DOMAIN cache THEN cache[candidate_id] ELSE NoneVal

\* a sort that leaves the list as it is
SortResultsUnsorted(results) == results

\* line 238: results.sort(key=lambda x: x['score'], reverse=True)
SortResults(results) == SortByScore(results)

\* score_candidates_huggingface (lines 177-240) with use_classifier = False,
\* the model loaded: the results, the embedding cache after the call, the
\* cache entries the call looked up and saved, and the candidates whose text
\* it gave to the model
score_candidates_huggingface(job_text, candidates_list, cache) ==
    LET job_embedding == Encode(job_text)
        N == Len(candidates_list)
        candidate_id(i) == Get(candidates_list[i], "id", TempId(i))
        cached_embedding(i) == load_cached_embedding(cache, candidate_id(i))
        to_compute_indices == {i \in 1..N : cached_embedding(i) = NoneVal}
        computed(i) == Encode(Get(candidates_list[i], "text", ""))
        candidate_embedding(i) ==
            IF i \in to_compute_indices THEN computed(i) ELSE cached_embedding(i)
        saved == {candidate_id(i) : i \in to_compute_indices}
        last(k) == CHOOSE i \in to_compute_indices :
                      /\ candidate_id(i) = k
                      /\ \A o \in to_compute_indices : candidate_id(o) = k => o <= i
        similarity(i) ==
            cosine_similarity_to_score(job_embedding, candidate_embedding(i))
        result(i) ==
            [id |-> candidate_id(i),
             score |-> similarity(i),
             confidence |-> Confidence(similarity(i)),
             similarity_score |-> similarity(i),
             recommendation |-> get_recommendation_from_score(similarity(i))]
    IN  IF N = 0
        THEN [results |-> <<>>, cache |-> cache, looked_up |-> {}, saved |-> {},
              to_compute_indices |-> {}]
        ELSE [results |-> SortResults([i \in 1..N |-> result(i)]),
              cache |-> [k \in DOMAIN cache \cup saved |->
                            IF k \in saved THEN computed(last(k)) ELSE cache[k]],
              looked_up |-> {candidate_id(i) : i \in 1..N},
              saved |-> saved,
              to_compute_indices |-> to_compute_indices]

\* _calculate_resume_quality_score without its cap at 100
calculate_resume_quality_score_uncapped(resume_text, base_score) ==
    LET word_count == WordCount(resume_text)
        length_factor == IF word_count >= 200 THEN 10
                         ELSE IF word_count >= 100 THEN 5 ELSE 0
        quality_bonus == length_factor + SectionsFound(resume_text) * 4
                         + (IF HasEmailPattern(resume_text) THEN 5 ELSE 0)
                         + (IF HasPhonePattern(resume_text) THEN 5 ELSE 0)
    IN  base_score + quality_bonus

\* _calculate_resume_quality_score
calculate_resume_quality_score(resume_text, base_score) ==
    LET word_count == WordCount(resume_text)
        length_factor == IF word_count >= 200 THEN 10
                         ELSE IF word_count >= 100 THEN 5 ELSE 0
        quality_bonus == length_factor + SectionsFound(resume_text) * 4
                         + (IF HasEmailPattern(resume_text) THEN 5 ELSE 0)
                         + (IF HasPhonePattern(resume_text) THEN 5 ELSE 0)
    IN  Min(100, base_score + quality_bonus)

\* _calculate_skills_match_score
calculate_skills_match_score(skills, job_description, base_score) ==
    LET matched_skills == skills \cap SkillsOf(job_description)
        skill_boost == (Cardinality(matched_skills) * 30) \div Cardinality(skills)
    IN  IF skills = {} THEN Max(30, base_score - 20)
        ELSE Min(100, base_score + skill_boost)

\* _calculate_experience_match_score
calculate_experience_match_score(experience_years, education_level, job_description, base_score) ==
    LET found == YearNumbersIn(job_description)
        required_years == IF found = {} THEN 0 ELSE SetMax(found)
        candidate_years == IF experience_years = <<>> THEN 0 ELSE experience_years[1]
        experience ==
            IF required_years > 0
            THEN IF candidate_years >= required_years THEN 15
                 ELSE IF 10 * candidate_years >= 7 * required_years THEN 10
                 ELSE IF 2 * candidate_years >= required_years THEN 5
                 ELSE -10
            ELSE 0
        education == IF education_level \in {"Masters", "Phd"} THEN 10
                     ELSE IF education_level = "Bachelors" THEN 5 ELSE 0
    IN  Min(100, Max(20, base_score + experience + education))

\* _identify_strengths_hf (ai_service.py 1510-1542); the messages are written
\* without the numbers the code formats into them
identify_strengths_hf(skills, experience_years, education_level, industry_keywords, similarity_score) ==
    LET strengths ==
            (IF QLe(Q(8, 10), similarity_score)
             THEN <<"Excellent semantic match with job requirements">>
             ELSE When(QLe(Q(6, 10), similarity_score),
                       "Strong alignment with job description"))
            \o (IF Cardinality(skills) >= 10
                THEN <<"Extensive skill set with N identified skills">>
                ELSE When(Cardinality(skills) >= 5, "Good range of technical skills"))
            \o When(experience_years # <<>> /\ experience_years[1] >= 5,
                    "Experienced professional with N years")
            \o When(education_level \in {"Masters", "Phd"}, "Advanced education")
            \o When(Cardinality(industry_keywords) >= 3,
                    "Strong industry knowledge and terminology")
    IN  Take(strengths, 4)

\* _identify_weaknesses_hf (ai_service.py 1544-1568)
identify_weaknesses_hf(skills, experience_years, education_level, similarity_score) ==
    LET weaknesses ==
            (IF QLt(similarity_score, Q(4, 10))
             THEN <<"Low semantic similarity with job requirements">>
             ELSE When(QLt(similarity_score, Q(6, 10)),
                       "Moderate alignment with job description needs improvement"))
            \o When(Cardinality(skills) < 3, "Limited technical skills identified")
            \o When(experience_years = <<>>, "Work experience duration unclear")
            \o When(education_level = "Not specified",
                    "Educational background not clearly stated")
    IN  Take(weaknesses, 3)

\* _generate_ai_insights_hf (ai_service.py 1570-1606)
generate_ai_insights_hf(overall_score, similarity_score, skills, experience_years) ==
    LET insights ==
            << IF overall_score >= 80
               THEN "Strong candidate with excellent fit for the role"
               ELSE IF overall_score >= 65
               THEN "Good candidate worth considering for interview"
               ELSE IF overall_score >= 50
               THEN "Moderate fit - review carefully against specific requirements"
               ELSE "Limited alignment with job requirements",
               IF QLe(Q(7, 10), similarity_score)
               THEN "Resume content shows strong semantic alignment with job posting"
               ELSE IF QLe(Q(5, 10), similarity_score)
               THEN "Decent content match but could benefit from more specific examples"
               ELSE "Resume content needs better alignment with job requirements",
               IF Cardinality(skills) >= 8
               THEN "Comprehensive skill set demonstrates versatility"
               ELSE IF Cardinality(skills) >= 4
               THEN "Good technical foundation with room for specialization"
               ELSE "Limited skill information - consider requesting additional details" >>
    IN  Take(insights, 3)

\* _calculate_enhanced_resume_score_hf
calculate_enhanced_resume_score_hf(resume_text, job_description, extracted_data, hf_score, similarity_score) ==
    LET base_score == QFloor(QMul(hf_score, QInt(100)))
        similarity_percentage == QFloor(QMul(similarity_score, QInt(100)))
        resume_quality_score == calculate_resume_quality_score(resume_text, base_score)
        skills_match_score ==
            calculate_skills_match_score(extracted_data.skills, job_description,
                                         similarity_percentage)
        experience_match_score ==
            calculate_experience_match_score(extracted_data.experience_years,
                                             extracted_data.education_level,
                                             job_description, base_score)
        overall_score == (40 * base_score + 25 * resume_quality_score
                          + 20 * skills_match_score
                          + 15 * experience_match_score) \div 100
    IN  [resumeScore |-> resume_quality_score,
         skillsMatch |-> skills_match_score,
         experienceMatch |-> experience_match_score,
         overallScore |-> overall_score,
         semanticSimilarity |-> similarity_percentage,
         strengths |-> identify_strengths_hf(extracted_data.skills,
                                             extracted_data.experience_years,
                                             extracted_data.education_level,
                                             extracted_data.industry_keywords,
                                             similarity_score),
         weaknesses |-> identify_weaknesses_hf(extracted_data.skills,
                                               extracted_data.experience_years,
                                               extracted_data.education_level,
                                               similarity_score),
         aiInsights |-> generate_ai_insights_hf(overall_score, similarity_score,
                                                extracted_data.skills,
                                                extracted_data.experience_years)]

\* _score_to_action
score_to_action(score) ==
    IF score >= 80 THEN "hire"
    ELSE IF score >= 65 THEN "interview"
    ELSE IF score >= 50 THEN "maybe"
    ELSE "reject"

(***************************************************************************)
(* Scoring, tier C: text analysis only (ai_service.py 1619-1779,           *)
(* 1834-1843).                                                             *)
(***************************************************************************)
\* _calculate_resume_quality
calculate_resume_quality(resume_text, extracted_data) ==
    LET text_length == CharCount(resume_text)
        n_skills == Cardinality(extracted_data.skills)
        education == extracted_data.education_level
        score == 50
                 + (IF text_length > 2000 THEN 20
                    ELSE IF text_length > 1000 THEN 15
                    ELSE IF text_length > 500 THEN 10
                    ELSE IF text_length > 200 THEN 5 ELSE 0)
                 + (IF n_skills >= 10 THEN 15
                    ELSE IF n_skills >= 5 THEN 12
                    ELSE IF n_skills >= 3 THEN 8
                    ELSE IF n_skills >= 1 THEN 5 ELSE 0)
                 + (IF education = "Phd" THEN 12
                    ELSE IF education = "Masters" THEN 10
                    ELSE IF education = "Bachelors" THEN 8
                    ELSE IF education = "Associates" THEN 4 ELSE 0)
                 + QualitySectionsFound(resume_text) * 2
                 + Min(AchievementsFound(resume_text), 8)
                 + IndicatorsFound(resume_text) * 2
    IN  Min(95, Max(35, score))

\* _get_recommendation
get_recommendation(score) ==
    IF score >= 80 THEN "hire"
    ELSE IF score >= 65 THEN "interview"
    ELSE IF score >= 50 THEN "maybe"
    ELSE "reject"

\* _generate_detailed_insights (ai_service.py 1781-1832); the messages are
\* written without the numbers and names the code formats into them
generate_detailed_insights(candidate_skills, job_skills, exp_years, required_years, extracted_data, overall_score) ==
    LET matching_skills == candidate_skills \cap job_skills
        missing_skills == job_skills \ candidate_skills
        education == extracted_data.education_level
        meets == exp_years >= required_years
        nearly == 10 * exp_years >= 8 * required_years
        strengths ==
            (IF Cardinality(matching_skills) > 3
             THEN <<"Strong technical skill alignment (N matching skills)">>
             ELSE When(Cardinality(matching_skills) > 1,
                       "Good technical foundation with relevant skills"))
            \o (IF meets THEN <<"Meets experience requirement (N+ years)">>
                ELSE When(nearly, "Nearly meets experience requirement"))
            \o (IF education \in {"Phd", "Masters"}
                THEN <<"Advanced education background">>
                ELSE When(education = "Bachelors", "Solid educational foundation"))
        weaknesses ==
            (IF missing_skills # {} /\ Cardinality(missing_skills) <= 3
             THEN <<"Missing key skills: ...">>
             ELSE When(Cardinality(missing_skills) > 3,
                       "Several important technical skills not demonstrated"))
            \o When(~meets /\ ~nearly,
                    "Below preferred experience level (has N, needs M+)")
        insights ==
            IF overall_score >= 85
            THEN <<"Excellent candidate - strong match for the role",
                   "Recommend priority consideration for interview">>
            ELSE IF overall_score >= 70
            THEN <<"Good candidate with potential for the role",
                   "Consider for interview with focus on skill gaps">>
            ELSE IF overall_score >= 55
            THEN <<"Marginal fit - may need additional training or experience",
                   "Evaluate cultural fit and growth potential">>
            ELSE <<"Below minimum requirements for this role",
                   "Consider for more junior positions if available">>
    IN  [strengths |-> Take(strengths, 3),
         weaknesses |-> Take(weaknesses, 2),
         insights |-> Take(insights, 3)]

\* _calculate_enhanced_resume_score
calculate_enhanced_resume_score(resume_text, job_description, extracted_data) ==
    LET candidate_skills == extracted_data.skills
        job_skills_lower == SkillsOf(job_description)
        skills_overlap == Cardinality(candidate_skills \cap job_skills_lower)
        total_candidate_skills == Cardinality(candidate_skills)
        job_match_ratio == Q(skills_overlap, Cardinality(job_skills_lower))
        skills_abundance == QMin(Q(6, 10), Q(total_candidate_skills, 15))
        base_score == QAdd(QMul(job_match_ratio, QInt(75)),
                           QMul(skills_abundance, QInt(25)))
        diminished ==
            IF QLe(QInt(80), base_score)
            THEN QAdd(QInt(80), QMul(QSub(base_score, QInt(80)), Q(3, 10)))
            ELSE IF QLe(QInt(60), base_score)
            THEN QAdd(QInt(60), QMul(QSub(base_score, QInt(60)), Q(7, 10)))
            ELSE QMul(base_score, Q(9, 10))
        skills_match_score ==
            IF job_skills_lower # {} THEN QMin(QInt(95), diminished)
            ELSE QInt(Min(70, Cardinality(candidate_skills) * 6 + 25))
        experience_years == extracted_data.experience_years
        exp_number == IF experience_years = <<>> THEN 0 ELSE experience_years[1]
        job_exp_matches == YearNumbersIn(job_description)
        required_years == IF job_exp_matches # {} THEN SetMax(job_exp_matches) ELSE 3
        exp == QInt(exp_number)
        req == QInt(required_years)
        banded ==
            IF exp_number = 0 THEN QInt(20)
            ELSE IF QLt(exp, QMul(req, Q(5, 10)))
            THEN QAdd(QInt(25), QMul(QDiv(exp, req), QInt(20)))
            ELSE IF QLt(exp, QMul(req, Q(8, 10)))
            THEN QAdd(QInt(45),
                      QMul(QDiv(QSub(exp, QMul(req, Q(5, 10))), QMul(req, Q(3, 10))),
                           QInt(15)))
            ELSE IF exp_number < required_years
            THEN QAdd(QInt(60),
                      QMul(QDiv(QSub(exp, QMul(req, Q(8, 10))), QMul(req, Q(2, 10))),
                           QInt(10)))
            ELSE IF exp_number = required_years THEN QInt(75)
            ELSE IF exp_number <= required_years + 2
            THEN QAdd(QInt(75), QMul(Q(exp_number - required_years, 2), QInt(10)))
            ELSE QInt(85 + Min(10, (exp_number - (required_years + 2)) * 2))
        experience_match_score == QMin(QInt(95), QMax(QInt(15), banded))
        resume_quality_score == calculate_resume_quality(resume_text, extracted_data)
        weighted_score ==
            QAdd(QAdd(QMul(skills_match_score, Q(4, 10)),
                      QMul(experience_match_score, Q(35, 100))),
                 QMul(QInt(resume_quality_score), Q(25, 100)))
        calibrated ==
            IF QLt(QInt(85), weighted_score)
            THEN QFloor(QAdd(QInt(85), QMul(QSub(weighted_score, QInt(85)), Q(4, 10))))
            ELSE IF QLt(QInt(70), weighted_score)
            THEN QFloor(QAdd(QInt(70), QMul(QSub(weighted_score, QInt(70)), Q(7, 10))))
            ELSE QFloor(QMul(weighted_score, Q(95, 100)))
        overall_score == Min(95, Max(20, calibrated))
        detailed == generate_detailed_insights(candidate_skills, job_skills_lower,
                                               exp_number, required_years,
                                               extracted_data, overall_score)
    IN  [resumeScore |-> resume_quality_score,
         skillsMatch |-> QFloor(skills_match_score),
         experienceMatch |-> QFloor(experience_match_score),
         overallScore |-> overall_score,
         strengths |-> detailed.strengths,
         weaknesses |-> detailed.weaknesses,
         aiInsights |-> detailed.insights,
         confidenceLevel |-> 75,
         recommendedAction |-> get_recommendation(overall_score)]

(***************************************************************************)
(* calculate_resume_score (ai_service.py 1181-1245)                        *)
(***************************************************************************)
\* lines 1185-1196: the result for an empty resume text or job description
EmptyInputScore ==
    [resumeScore |-> 60,
     skillsMatch |-> 65,
     experienceMatch |-> 70,
     overallScore |-> 65,
     strengths |-> <<"Application submitted">>,
     weaknesses |-> <<"Limited information available for detailed analysis">>,
     aiInsights |-> <<"Candidate profile needs more detailed information for comprehensive analysis">>,
     modelUsed |-> "HuggingFace-Fallback",
     confidenceLevel |-> 50,
     recommendedAction |-> "review"]

\* "HuggingFace " + settings.EMBEDDING_MODEL_NAME.split('/')[-1]
ModelUsed == "HuggingFace msmarco-distilbert-base-v4"

\* the one element of a set of one element
Only(S) == CHOOSE v \in S : TRUE

\* lines 1220-1239: the result built from the first of the batch results
EnhancedResult(resume_text, job_description, extracted_data, hf) ==
    Only({ [modelUsed |-> ModelUsed,
            confidenceLevel |-> QFloor(QMul(hf.confidence, QInt(100))),
            recommendedAction |-> score_to_action(enhanced_scores.overallScore),
            \* lines 1226-1230, without the numbers formatted into the messages
            aiInsights |-> enhanced_scores.aiInsights
                           \o <<"Semantic similarity score", "ML model confidence",
                                hf.recommendation>>]
           @@ enhanced_scores :
           enhanced_scores \in
               {calculate_enhanced_resume_score_hf(resume_text, job_description,
                                                   extracted_data, hf.score,
                                                   hf.similarity_score)} })

\* lines 1198-1239: tier A with the embedding model loaded; the result, the
\* embedding cache after the call and the cache entries looked up and saved
ScoreWithEmbeddings(resume_text, job_description, cache) ==
    Only({ [result |-> EnhancedResult(resume_text, job_description,
                                      extracted_data, scored.results[1]),
            cache |-> scored.cache,
            looked_up |-> scored.looked_up,
            saved |-> scored.saved] :
           extracted_data \in {preprocess_resume_data(resume_text, job_description)},
           scored \in {score_candidates_huggingface(
                           job_description,
                           <<[id |-> "candidate", text |-> resume_text]>>, cache)} })

\* an except clause that raises again
ScoreWithoutEmbeddingsRaising(resume_text, job_description) ==
    [raised |-> "Exception"]

\* lines 1241-1245: the except clause, tier C
ScoreWithoutEmbeddings(resume_text, job_description) ==
    calculate_enhanced_resume_score(
        resume_text, job_description,
        preprocess_resume_data(resume_text, job_description))

(***************************************************************************)
(* Initial state: empty collections, nothing uploaded, models not loaded.  *)
(***************************************************************************)
NoTask == [pc |-> "none"]

Init ==
    /\ job_postings = [j \in JobIds |-> NoneVal]
    /\ candidates = [c \in CandidateIds |-> NoneVal]
    /\ background_tasks = [c \in CandidateIds |-> NoTask]
    /\ uploads = [c \in CandidateIds |-> NoneVal]
    /\ embedding_model = FALSE
    /\ chroma_collection = FALSE
    /\ nlp = FALSE
    /\ resumes = {}
    /\ chats = {}
    /\ response = NoneVal
    /\ embed_cache = <<>>
    /\ score_result = NoneVal
    /\ skills_config = NoneVal

(***************************************************************************)
(* AIService.initialize (ai_service.py 47-116).  Loading the sentence      *)
(* model, opening the vector index and loading spaCy can each fail; the    *)
(* first two failures end the initialization, the third is tolerated.      *)
(***************************************************************************)
\* lines 52-116: what a call that finds _initialized unset does to the service
Initializing(model_loads, chroma_opens, spacy_loads) ==
    /\ embedding_model' = (embedding_model \/ model_loads)
    /\ chroma_collection' = (model_loads /\ chroma_opens)
    /\ nlp' = IF model_loads /\ chroma_opens THEN spacy_loads ELSE nlp

initialize(model_loads, chroma_opens, spacy_loads) ==
    /\ ~(embedding_model /\ chroma_collection)      \* not self._initialized
    /\ Initializing(model_loads, chroma_opens, spacy_loads)
    /\ UNCHANGED <<job_postings, candidates, background_tasks, uploads,
                   resumes, chats, response>>
    /\ UNCHANGED scoring
    /\ UNCHANGED skills_config

(***************************************************************************)
(* calculate_resume_score (ai_service.py 1181-1245) as an operation of the *)
(* service.  A call that finds no embedding model initializes the service  *)
(* first; if that raises, or if the model raises when it is given a text,  *)
(* the except clause answers with tier C.                                  *)
(***************************************************************************)
\* the tier that answers, its result, the embedding cache after the call and
\* the cache entries the call looked up and saved
ResumeScore(resume_text, job_description, model_loads, chroma_opens, encode_raises) ==
    LET untouched == [cache |-> embed_cache, looked_up |-> {}, saved |-> {}]
    IN  IF resume_text = "" \/ job_description = ""
        THEN [tier |-> "default", cause |-> "empty input",
              result |-> EmptyInputScore] @@ untouched
        ELSE IF ~embedding_model /\ ~(model_loads /\ chroma_opens)
        THEN [tier |-> "C", cause |-> "initialize raised",
              result |-> ScoreWithoutEmbeddings(resume_text, job_description)]
             @@ untouched
        ELSE IF encode_raises
        THEN [tier |-> "C", cause |-> "encode raised",
              result |-> ScoreWithoutEmbeddings(resume_text, job_description)]
             @@ untouched
        ELSE [tier |-> "A", cause |-> ""]
             @@ ScoreWithEmbeddings(resume_text, job_description, embed_cache)

\* lines 174-175 of score_candidates_huggingface, reached with texts that are
\* not empty: what the call does to the service
ScoringInitializes(resume_text, job_description, model_loads, chroma_opens, spacy_loads) ==
    IF resume_text = "" \/ job_description = "" \/ embedding_model
    THEN UNCHANGED <<embedding_model, chroma_collection, nlp>>
    ELSE Initializing(model_loads, chroma_opens, spacy_loads)

calculate_resume_score(resume_text, job_description, model_loads, chroma_opens, spacy_loads, encode_raises) ==
    LET request == [resume_text |-> resume_text, job_description |-> job_description]
    IN
    /\ \E scored \in {ResumeScore(resume_text, job_description, model_loads,
                                   chroma_opens, encode_raises)} :
        /\ score_result' = [call |-> "calculate_resume_score", request |-> request,
                            tier |-> scored.tier, cause |-> scored.cause,
                            result |-> scored.result,
                            looked_up |-> scored.looked_up, saved |-> scored.saved]
        /\ embed_cache' = scored.cache
    /\ ScoringInitializes(resume_text, job_description, model_loads, chroma_opens,
                          spacy_loads)
    /\ UNCHANGED <<job_postings, candidates, background_tasks, uploads,
                   resumes, chats, response>>
    /\ UNCHANGED skills_config

(***************************************************************************)
(* score_candidates_huggingface (ai_service.py 157-240) called on its own, *)
(* with use_classifier = False, as the scripts of the repository call it.  *)
(* The call raises what the initialization or the model raises.            *)
(***************************************************************************)
ScoreCandidates(job_text, candidates_list, model_loads, chroma_opens, spacy_loads, encode_raises) ==
    LET request == [job_text |-> job_text, candidates |-> candidates_list]
        scored == score_candidates_huggingface(job_text, candidates_list, embed_cache)
        raised == IF ~embedding_model /\ ~(model_loads /\ chroma_opens)
                  THEN "initialize raised"
                  ELSE IF candidates_list # <<>> /\ encode_raises
                  THEN "encode raised"
                  ELSE ""
    IN
    /\ IF raised # ""
       THEN /\ score_result' = [call |-> "score_candidates_huggingface",
                                request |-> request, raised |-> raised]
            /\ UNCHANGED embed_cache
       ELSE /\ score_result' = [call |-> "score_candidates_huggingface",
                                request |-> request, raised |-> "",
                                results |-> scored.results,
                                looked_up |-> scored.looked_up,
                                saved |-> scored.saved,
                                to_compute_indices |-> scored.to_compute_indices]
            /\ embed_cache' = scored.cache
    /\ IF embedding_model
       THEN UNCHANGED <<embedding_model, chroma_collection, nlp>>
       ELSE Initializing(model_loads, chroma_opens, spacy_loads)
    /\ UNCHANGED <<job_postings, candidates, background_tasks, uploads,
                   resumes, chats, response>>
    /\ UNCHANGED skills_config

(***************************************************************************)
(* get_candidate_ai_score (candidates.py 380-427).  candidate_doc and      *)
(* job_doc are what the two lookups in the store answer.                   *)
(***************************************************************************)
get_candidate_ai_score(candidate_id, candidate_doc, job_doc, model_loads, chroma_opens, spacy_loads, encode_raises) ==
    LET resume_text == Get(candidate_doc, "extractedText", "")
        job_description == Get(job_doc, "description", "")
        request == [candidate_id |-> candidate_id, resume_text |-> resume_text,
                    job_description |-> job_description]
        rejection ==
            IF ~ObjectIdIsValid(candidate_id)
            THEN [code |-> 400, detail |-> "Invalid candidate ID"]
            ELSE IF candidate_doc = NoneVal
            THEN [code |-> 404, detail |-> "Candidate not found"]
            ELSE IF job_doc = NoneVal
            THEN [code |-> 404, detail |-> "Associated job posting not found"]
            ELSE NoneVal
    IN
    /\ IF rejection # NoneVal
       THEN /\ response' = rejection @@ [request |-> [candidate_id |-> candidate_id]]
            /\ UNCHANGED <<embedding_model, chroma_collection, nlp>>
            /\ UNCHANGED scoring
       ELSE /\ \E scored \in {ResumeScore(resume_text, job_description,
                                           model_loads, chroma_opens,
                                           encode_raises)} :
                /\ score_result' =
                       [call |-> "get_candidate_ai_score", request |-> request,
                        tier |-> scored.tier, cause |-> scored.cause,
                        result |-> scored.result,
                        looked_up |-> scored.looked_up, saved |-> scored.saved]
                /\ embed_cache' = scored.cache
            /\ response' = [code |-> 200,
                            request |-> [candidate_id |-> candidate_id],
                            candidateId |-> candidate_id]
            /\ ScoringInitializes(resume_text, job_description, model_loads,
                                  chroma_opens, spacy_loads)
    /\ UNCHANGED <<job_postings, candidates, background_tasks, uploads,
                   resumes, chats>>
    /\ UNCHANGED skills_config

(***************************************************************************)
(* create_job_posting (jobs.py 16-51)                                      *)
(***************************************************************************)
create_job_posting(description) ==
    /\ \E j \in JobIds : job_postings[j] = NoneVal
    /\ LET j == CHOOSE i \in JobIds :
                  job_postings[i] = NoneVal
                  /\ \A k \in JobIds : job_postings[k] = NoneVal => i <= k
           description_vector ==
               IF embedding_model THEN generate_embedding(description)
               ELSE NoneVal
       IN  job_postings' = [job_postings EXCEPT ![j] =
               [description |-> description,
                descriptionVector |-> description_vector,
                isActive |-> TRUE]]
    /\ UNCHANGED <<candidates, background_tasks, uploads, embedding_model,
                   chroma_collection, nlp, resumes, chats, response>>
    /\ UNCHANGED scoring
    /\ UNCHANGED skills_config

(***************************************************************************)
(* upload_resume (jobs.py 216-295).  The candidate id is the id the store  *)
(* hands out on insert; the upload is not taken once every id of the model *)
(* is in use.                                                              *)
(***************************************************************************)
\* the extensions without the one allowed "temporarily"
AllowedUploadExtNoTxt == {".pdf", ".docx"}

\* line 241: the extensions upload_resume lets through
AllowedUploadExt == {".pdf", ".docx", ".txt"}

TempName == "Candidate_uuid8"
TempEmail == "temp.uuid8@aurahr.processing"

NewCandidate(job_id, filename) ==
    [jobPostingId |-> job_id,
     name |-> TempName,
     email |-> TempEmail,
     phone |-> "",
     resumeS3Key |-> filename,
     extractedText |-> "",
     chromaVectorId |-> NoneVal,
     matchScore |-> 0,
     status |-> "new",
     interviewSummary |-> ""]

Rejected(code, detail, request) ==
    /\ response' = [code |-> code, detail |-> detail, request |-> request]
    /\ UNCHANGED <<candidates, background_tasks, uploads>>

upload_resume(job_id, file, size) ==
    LET request == [job_id |-> job_id, filename |-> file.filename, size |-> size]
    IN
    /\ \E c \in CandidateIds : candidates[c] = NoneVal
    /\ IF ~ObjectIdIsValid(job_id)
       THEN Rejected(400, "Invalid job ID", request)
       ELSE IF job_postings[job_id] = NoneVal
       THEN Rejected(404, "Job posting not found", request)
       ELSE IF LowerExt(file.filename) \notin AllowedUploadExt
       THEN Rejected(400, "Only PDF, DOCX, and TXT files are supported", request)
       ELSE IF size # 0 /\ size > MAX_FILE_SIZE
       THEN Rejected(400, "File too large", request)
       ELSE LET c == CHOOSE i \in CandidateIds :
                         candidates[i] = NoneVal
                         /\ \A k \in CandidateIds : candidates[k] = NoneVal => i <= k
            IN  /\ uploads' = [uploads EXCEPT ![c] = file]
                /\ candidates' = [candidates EXCEPT ![c] =
                                      NewCandidate(job_id, file.filename)]
                /\ background_tasks' = [background_tasks EXCEPT ![c] =
                       [pc |-> "scheduled", job_id |-> job_id,
                        previous |-> NoneVal]]
                /\ response' = [code |-> 200,
                                detail |-> "Resume uploaded successfully. Processing started.",
                                request |-> request,
                                candidateId |-> ObjectIdStr(c)]
    /\ UNCHANGED <<job_postings, embedding_model, chroma_collection, nlp,
                   resumes, chats>>
    /\ UNCHANGED scoring
    /\ UNCHANGED skills_config

(***************************************************************************)
(* process_resume_background_task (jobs.py 108-214).  The coroutine gives  *)
(* up control where it awaits the store: the run is one step up to the     *)
(* lookup of the job posting and one step from its answer to the end.      *)
(***************************************************************************)
\* lines 115-138: text extraction, entity extraction, the job lookup is sent
process_resume_extract(c, extraction_raises) ==
    /\ background_tasks[c].pc = "scheduled"
    /\ LET file == uploads[c]
           file_path == file.filename
           extracted_text ==
               IF LowerExt(file_path) = ".pdf" THEN extract_text_from_pdf(file)
               ELSE IF LowerExt(file_path) = ".docx" THEN extract_text_from_docx(file)
               ELSE ""
           entities_data ==
               IF extraction_raises THEN FallbackEntities
               ELSE extract_entities_from_resume(extracted_text, nlp)
       IN  background_tasks' = [background_tasks EXCEPT ![c] =
               [pc |-> "awaiting_job",
                job_id |-> background_tasks[c].job_id,
                previous |-> background_tasks[c].previous,
                extracted_text |-> extracted_text,
                entities_data |-> entities_data,
                entities_failed |-> extraction_raises]]
    /\ UNCHANGED <<job_postings, candidates, uploads, embedding_model,
                   chroma_collection, nlp, resumes, chats, response>>
    /\ UNCHANGED scoring
    /\ UNCHANGED skills_config

\* store_resume_embedding (ai_service.py 953-969), called with the index and
\* the model loaded: what chroma_collection.add answers
store_resume_embedding(collection, candidate_id, text, metadata) ==
    ChromaAdd(collection, candidate_id, generate_embedding(text), text, metadata)

\* search_similar_candidates(job_description, top_k=1) (ai_service.py 971-997)
search_similar_candidates(collection, job_description) ==
    LET job_embedding == generate_embedding(job_description)
        e == ChromaNearest(collection, job_embedding)
    IN  IF collection = {} THEN <<>>
        ELSE <<[candidate_id |-> e.id,
                similarity_score |-> SimilarityScore(e, job_embedding)]>>

\* an except clause that leaves a score behind
FailedStageNonZero(collection, chroma_vector_id, injected) ==
    [collection |-> collection, chroma_vector_id |-> chroma_vector_id,
     match_score |-> 50, embedding |-> "failed", injected |-> injected]

\* lines 143-144 and 167-168: the stage ends in its except clause; match_score
\* still has the 0.0 it was given before the try
FailedStage(collection, chroma_vector_id, injected) ==
    [collection |-> collection, chroma_vector_id |-> chroma_vector_id,
     match_score |-> 0, embedding |-> "failed", injected |-> injected]

\* lines 142-168: the embedding stage.  chroma_fault names the call to the
\* vector index that the environment makes raise, if any.  `embedding` says
\* whether the stage was skipped, completed or ended in its except clause,
\* `injected` which fault of the environment it met.
EmbeddingStage(c, task, job_doc, chroma_fault) ==
    LET id == ObjectIdStr(c)
        metadata == [candidate_id |-> id, job_id |-> task.job_id,
                     name |-> TempName, email |-> TempEmail]
        added == store_resume_embedding(resumes, id, task.extracted_text, metadata)
        similar_candidates ==
            search_similar_candidates(added.collection, job_doc.description)
    IN  IF ~(task.extracted_text # "" /\ job_doc.description # "")
        THEN [collection |-> resumes, chroma_vector_id |-> NoneVal,
              match_score |-> 0, embedding |-> "skipped", injected |-> "none"]
        ELSE IF ~chroma_collection \/ ~embedding_model
        THEN FailedStage(resumes, NoneVal, "not_loaded")
        ELSE IF chroma_fault = "add"
        THEN FailedStage(resumes, NoneVal, "add")
        ELSE IF added.raised # ""
        THEN FailedStage(added.collection, NoneVal, "none")
        ELSE IF chroma_fault = "query"
        THEN FailedStage(added.collection, id, "query")
        ELSE [collection |-> added.collection, chroma_vector_id |-> id,
              match_score |->
                  IF similar_candidates # <<>>
                     /\ similar_candidates[1].candidate_id = id
                  THEN similar_candidates[1].similarity_score ELSE 0,
              embedding |-> "completed", injected |-> "none"]

\* line 181-188: contact_info.get("name"), else the first PERSON entity
CandidateName(entities_data) ==
    LET contact_info == Get(entities_data, "contact_info", NoneVal)
        person_names == Get(entities_data, "person_names", <<>>)
    IN  IF Get(contact_info, "name", "") # "" THEN contact_info.name
        ELSE IF Len(person_names) > 0 THEN person_names[1]
        ELSE ""

\* the final update without the length test on the name
UpdateDataAnyName(task, stage) ==
    LET entities_data == task.entities_data
        contact_info == Get(entities_data, "contact_info", NoneVal)
        candidate_name == CandidateName(entities_data)
        update_data == [extractedText |-> task.extracted_text,
                        chromaVectorId |-> stage.chroma_vector_id,
                        matchScore |-> stage.match_score,
                        status |-> "new"]
        name_update == IF candidate_name # ""
                       THEN [name |-> candidate_name] ELSE NoneVal
        email_update == IF Get(contact_info, "email", "") # ""
                        THEN [email |-> contact_info.email] ELSE NoneVal
        phone_update == IF Get(contact_info, "phone", "") # ""
                        THEN [phone |-> contact_info.phone] ELSE NoneVal
    IN  name_update @@ email_update @@ phone_update @@ update_data

\* lines 170-199: the fields of the final update
UpdateData(task, stage) ==
    LET entities_data == task.entities_data
        contact_info == Get(entities_data, "contact_info", NoneVal)
        candidate_name == CandidateName(entities_data)
        update_data == [extractedText |-> task.extracted_text,
                        chromaVectorId |-> stage.chroma_vector_id,
                        matchScore |-> stage.match_score,
                        status |-> "new"]
        name_update == IF candidate_name # "" /\ Len(candidate_name) > 2
                       THEN [name |-> candidate_name] ELSE NoneVal
        email_update == IF Get(contact_info, "email", "") # ""
                        THEN [email |-> contact_info.email] ELSE NoneVal
        phone_update == IF Get(contact_info, "phone", "") # ""
                        THEN [phone |-> contact_info.phone] ELSE NoneVal
    IN  name_update @@ email_update @@ phone_update @@ update_data

\* lines 208-214: the update made by the handler of the outer try
FailureUpdate == [status |-> "new"]

\* A run that has ended: how it ended (`outcome`), what its stages did, and
\* the record and the index it left behind.
Finished(task, outcome, stage, record, collection) ==
    [pc |-> "done",
     job_id |-> task.job_id,
     previous |-> task.previous,
     extracted_text |-> task.extracted_text,
     entities_data |-> task.entities_data,
     entities_failed |-> task.entities_failed,
     embedding |-> stage.embedding,
     injected |-> stage.injected,
     outcome |-> outcome,
     record |-> record,
     index |-> collection]

NoStage == [embedding |-> "skipped", injected |-> "none"]

\* lines 138-214: the answer of the job lookup, the embedding stage, the final
\* update.  db_read, db_write and handler_write say whether the store answers
\* the lookup, the final update and the handler's update ("ok") or raises.
process_resume_persist(c, db_read, chroma_fault, db_write, handler_write) ==
    /\ background_tasks[c].pc = "awaiting_job"
    /\ LET task == background_tasks[c]
           job_doc == job_postings[task.job_id]
           stage == EmbeddingStage(c, task, job_doc, chroma_fault)
           handled == IF handler_write = "ok"
                      THEN SetFields(candidates[c], FailureUpdate)
                      ELSE candidates[c]
           updated == SetFields(candidates[c], UpdateData(task, stage))
       IN  IF db_read # "ok"
           THEN /\ candidates' = [candidates EXCEPT ![c] = handled]
                /\ resumes' = resumes
                /\ background_tasks' = [background_tasks EXCEPT ![c] =
                       Finished(task, "read_failed", NoStage, handled, resumes)]
           ELSE IF job_doc = NoneVal
           THEN /\ UNCHANGED <<candidates, resumes>>
                /\ background_tasks' = [background_tasks EXCEPT ![c] =
                       Finished(task, "no_job", NoStage, candidates[c], resumes)]
           ELSE IF db_write = "ok"
           THEN /\ resumes' = stage.collection
                /\ candidates' = [candidates EXCEPT ![c] = updated]
                /\ background_tasks' = [background_tasks EXCEPT ![c] =
                       Finished(task, "persisted", stage, updated, stage.collection)]
           ELSE /\ resumes' = stage.collection
                /\ candidates' = [candidates EXCEPT ![c] = handled]
                /\ background_tasks' = [background_tasks EXCEPT ![c] =
                       Finished(task, "write_failed", stage, handled, stage.collection)]
    /\ UNCHANGED <<job_postings, uploads, embedding_model, chroma_collection,
                   nlp, chats, response>>
    /\ UNCHANGED scoring
    /\ UNCHANGED skills_config

\* A second call of process_resume_background_task with the arguments of the
\* first: same job id, same stored file, same candidate_data.  The run
\* remembers how the run before it ended.
reprocess(c) ==
    /\ background_tasks[c].pc = "done"
    /\ background_tasks' = [background_tasks EXCEPT ![c] =
           [pc |-> "scheduled",
            job_id |-> @.job_id,
            previous |-> [outcome |-> @.outcome,
                          entities_failed |-> @.entities_failed,
                          entities_data |-> @.entities_data,
                          embedding |-> @.embedding,
                          record |-> @.record,
                          index |-> @.index]]]
    /\ UNCHANGED <<job_postings, candidates, uploads, embedding_model,
                   chroma_collection, nlp, resumes, chats, response>>
    /\ UNCHANGED scoring
    /\ UNCHANGED skills_config

(***************************************************************************)
(* The status changes of the API layer (candidates.py).                    *)
(***************************************************************************)
CandidateStatus == {"new", "screening", "interview", "hired", "rejected"}

\* update_candidate_status (candidates.py 113-139)
update_candidate_status(c, new_status) ==
    /\ candidates[c] # NoneVal
    /\ candidates' = [candidates EXCEPT ![c] = SetFields(@, [status |-> new_status])]
    /\ UNCHANGED <<job_postings, background_tasks, uploads, embedding_model,
                   chroma_collection, nlp, resumes, chats, response>>
    /\ UNCHANGED scoring
    /\ UNCHANGED skills_config

\* start_candidate_screening (candidates.py 293-378)
start_candidate_screening(c) ==
    /\ candidates[c] # NoneVal
    /\ job_postings[candidates[c].jobPostingId] # NoneVal
    /\ chats' = chats \cup {[candidateId |-> c, type |-> "ai_screening",
                             status |-> "active"]}
    /\ candidates' = [candidates EXCEPT ![c] = SetFields(@, [status |-> "screening"])]
    /\ UNCHANGED <<job_postings, background_tasks, uploads, embedding_model,
                   chroma_collection, nlp, resumes, response>>
    /\ UNCHANGED scoring
    /\ UNCHANGED skills_config

(***************************************************************************)
(* The embedding engine called on its own: embed_texts (ai_service.py      *)
(* 117-127), generate_embedding (889-898), store_resume_embedding          *)
(* (953-969) and search_similar_candidates (971-997) as operations of the  *)
(* service.  score_result holds what the last call returned or raised.     *)
(***************************************************************************)
\* a guard that lets every call through
NotInitializedNever(component) == FALSE

\* lines 119, 891, 955, 973: `if not self.embedding_model`,
\* `if not self.chroma_collection`
NotInitialized(component) == ~component

ModelNotInitialized == "ValueError: Embedding model not initialized"
ChromaNotInitialized == "ValueError: ChromaDB not initialized"

\* the call leaves the service, the cache and the index as they are
Raises(call, request, error) ==
    /\ score_result' = [call |-> call, request |-> request, raised |-> error]
    /\ UNCHANGED <<embed_cache, resumes>>

\* value is a record with one field, named after what the call returns
Returns(call, request, value) ==
    score_result' = [call |-> call, request |-> request, raised |-> ""] @@ value

Call_embed_texts(texts) ==
    /\ IF NotInitialized(embedding_model)
       THEN Raises("embed_texts", [texts |-> texts], ModelNotInitialized)
       ELSE /\ Returns("embed_texts", [texts |-> texts],
                       [vectors |-> [i \in 1..Len(texts) |-> Encode(texts[i])]])
            /\ UNCHANGED <<embed_cache, resumes>>
    /\ UNCHANGED <<job_postings, candidates, background_tasks, uploads,
                   embedding_model, chroma_collection, nlp, chats, response>>
    /\ UNCHANGED skills_config

Call_generate_embedding(text) ==
    /\ IF NotInitialized(embedding_model)
       THEN Raises("generate_embedding", [text |-> text], ModelNotInitialized)
       ELSE /\ Returns("generate_embedding", [text |-> text],
                       [vectors |-> <<generate_embedding(text)>>])
            /\ UNCHANGED <<embed_cache, resumes>>
    /\ UNCHANGED <<job_postings, candidates, background_tasks, uploads,
                   embedding_model, chroma_collection, nlp, chats, response>>
    /\ UNCHANGED skills_config

Call_store_resume_embedding(candidate_id, text) ==
    LET request == [candidate_id |-> candidate_id, text |-> text]
        metadata == [candidate_id |-> candidate_id]
        added == ChromaAdd(resumes, candidate_id, generate_embedding(text),
                           text, metadata)
    IN
    /\ IF NotInitialized(chroma_collection)
       THEN Raises("store_resume_embedding", request, ChromaNotInitialized)
       ELSE IF NotInitialized(embedding_model)
       THEN Raises("store_resume_embedding", request, ModelNotInitialized)
       ELSE /\ Returns("store_resume_embedding", request,
                       [chroma_vector_id |-> candidate_id])
            /\ resumes' = added.collection
            /\ UNCHANGED embed_cache
    /\ UNCHANGED <<job_postings, candidates, background_tasks, uploads,
                   embedding_model, chroma_collection, nlp, chats, response>>
    /\ UNCHANGED skills_config

Call_search_similar_candidates(job_description) ==
    LET request == [job_description |-> job_description]
    IN
    /\ IF NotInitialized(chroma_collection)
       THEN Raises("search_similar_candidates", request, ChromaNotInitialized)
       ELSE IF NotInitialized(embedding_model)
       THEN Raises("search_similar_candidates", request, ModelNotInitialized)
       ELSE /\ Returns("search_similar_candidates", request,
                       [similar_candidates |->
                           search_similar_candidates(resumes, job_description)])
            /\ UNCHANGED <<embed_cache, resumes>>
    /\ UNCHANGED <<job_postings, candidates, background_tasks, uploads,
                   embedding_model, chroma_collection, nlp, chats, response>>
    /\ UNCHANGED skills_config

(***************************************************************************)
(* The text extractors called on their own (ai_service.py 256-361), with   *)
(* what each backend does to the file: it reads it, or its try block       *)
(* raises (the library is missing, the file cannot be opened or parsed).   *)
(***************************************************************************)
\* what the try block of a backend raises; "" is a backend that reads the file
BackendFaults == {"", "ImportError", "Exception"}

\* a handler that lets the exception through
ExceptClausePropagating(raised) == raised

\* lines 274-275, 294-297, 314-317, 359-361: `except ImportError`,
\* `except Exception`: the exception is logged and dropped; what is left of
\* it for the caller
ExceptClause(raised) == ""

\* the number of backends among the first n that read the file
BackendsRead(faults, n) == Cardinality({i \in 1..n : faults[i] = ""})

\* extract_text_from_pdf (256-320): PyPDF2, pdfplumber and pymupdf in turn,
\* each appending what it reads to the same `text`
PdfExtraction(body, faults) ==
    LET text(n) == CleanExtractedText(body, BackendsRead(faults, n))
        length(n) == AccLen(body, BackendsRead(faults, n))
    IN  IF ExceptClause(faults[1]) # ""
        THEN [raised |-> ExceptClause(faults[1])]
        ELSE IF faults[1] = "" /\ length(1) > 100
        THEN [raised |-> "", text |-> text(1)]
        ELSE IF ExceptClause(faults[2]) # ""
        THEN [raised |-> ExceptClause(faults[2])]
        ELSE IF faults[2] = "" /\ length(2) > 50
        THEN [raised |-> "", text |-> text(2)]
        ELSE IF ExceptClause(faults[3]) # ""
        THEN [raised |-> ExceptClause(faults[3])]
        ELSE IF faults[3] = "" /\ length(3) > 20
        THEN [raised |-> "", text |-> text(3)]
        ELSE [raised |-> "", text |-> text(3)]

\* extract_text_from_docx (322-361): one try block around the whole reading
DocxExtraction(body, fault) ==
    IF ExceptClause(fault) # "" THEN [raised |-> ExceptClause(fault)]
    ELSE IF fault # "" THEN [raised |-> "", text |-> ""]
    ELSE [raised |-> "", text |-> CleanExtractedText(body, 1)]

\* a call of an extractor: score_result holds the call and what it returned
\* or raised; the service and the stores stay as they are
Extracted(call, request, outcome) ==
    /\ score_result' = [call |-> call, request |-> request] @@ outcome
    /\ UNCHANGED <<job_postings, candidates, background_tasks, uploads,
                   embedding_model, chroma_collection, nlp, resumes, chats,
                   response, embed_cache>>

Call_extract_text_from_pdf(body, faults) ==
    /\ Extracted("extract_text_from_pdf", [body |-> body, faults |-> faults],
                 PdfExtraction(body, faults))
    /\ UNCHANGED skills_config

Call_extract_text_from_docx(body, fault) ==
    /\ Extracted("extract_text_from_docx", [body |-> body, faults |-> <<fault>>],
                 DocxExtraction(body, fault))
    /\ UNCHANGED skills_config

(***************************************************************************)
(* The entity extractor called on its own (ai_service.py 363-452), with    *)
(* the configuration manager it reads its skill dictionary from            *)
(* (config_manager.py 19-36, 83-96, 113-117).                              *)
(***************************************************************************)
\* what skills_config.json holds when it is read: no file, the dictionary the
\* tables of this model are computed with, a dictionary that an
\* administrator has edited (the entry of Python is gone), text that is not
\* JSON
SkillsFiles == {"missing", "shipped", "edited", "malformed"}

\* load_skills_database that reads the file at every call
load_skills_database_uncached(cache, file) ==
    CASE file = "missing" -> [raised |-> "", cache |-> [database |-> "fallback"]]
      [] file = "malformed" -> [raised |-> "JSONDecodeError", cache |-> cache]
      [] OTHER -> [raised |-> "", cache |-> [database |-> file]]

\* load_skills_database (config_manager.py 19-36): the file is read when
\* nothing is cached; json.load raises on a malformed file and nothing is
\* cached then
load_skills_database(cache, file) ==
    IF cache # NoneVal THEN [raised |-> "", cache |-> cache]
    ELSE CASE file = "missing" -> [raised |-> "", cache |-> [database |-> "fallback"]]
           [] file = "malformed" -> [raised |-> "JSONDecodeError", cache |-> NoneVal]
           [] OTHER -> [raised |-> "", cache |-> [database |-> file]]

\* _extract_skills_from_text (413-452) with the dictionary that is loaded; the
\* fallback dictionary of config_manager.py 28-35 knows python and javascript
SkillsFound(database, text) ==
    CASE database = "shipped" -> SkillsOf(text)
      [] database = "edited" -> SkillsOf(text) \ {"Python"}
      [] OTHER -> SkillsOf(text) \cap {"Python", "Javascript"}

\* line 385: self.nlp(text) raises on a text longer than the model accepts
NerRaisesOn(text) == text = "RESUME_L"

\* extract_entities_from_resume (363-411): the skills are matched and the
\* contact information is extracted outside any try block (367, 370); the
\* spaCy pass is inside one (384-394)
EntitiesExtraction(text, cache, file, nlpLoaded) ==
    LET loaded == load_skills_database(cache, file)
        found == extract_entities_from_resume(text, nlpLoaded /\ ~NerRaisesOn(text))
    IN  IF loaded.raised # ""
        THEN [raised |-> loaded.raised, cache |-> loaded.cache]
        ELSE [raised |-> "", cache |-> loaded.cache,
              entities |-> [found EXCEPT
                               !.skills = SkillsFound(loaded.cache.database, text)]]

\* a call of extract_entities_from_resume; score_result holds, with what the
\* call returned or raised, what it found in the service: whether spaCy was
\* loaded (ner) and whether the configuration was cached (cached)
Call_extract_entities_from_resume(text, file) ==
    /\ \E done \in {EntitiesExtraction(text, skills_config, file, nlp)} :
          /\ Extracted("extract_entities_from_resume", [text |-> text],
                       [ner |-> nlp, cached |-> skills_config # NoneVal]
                       @@ [k \in DOMAIN done \ {"cache"} |-> done[k]])
          /\ skills_config' = done.cache

\* reload_configs (config_manager.py 113-117)
reload_configs ==
    /\ skills_config # NoneVal
    /\ skills_config' = NoneVal
    /\ UNCHANGED <<job_postings, candidates, background_tasks, uploads,
                   embedding_model, chroma_collection, nlp, resumes, chats,
                   response, embed_cache, score_result>>

(***************************************************************************)
(* Names from the user name of an e-mail address (ai_service.py 763-887).  *)
(* A user name and a name are sequences of characters.                     *)
(***************************************************************************)
Alphabet == <<"a", "b", "c", "d", "e", "f", "g", "h", "i", "j", "k", "l", "m", "n", "o", "p", "q", "r", "s", "t", "u", "v", "w", "x", "y", "z">>
Capitals == <<"A", "B", "C", "D", "E", "F", "G", "H", "I", "J", "K", "L", "M", "N", "O", "P", "Q", "R", "S", "T", "U", "V", "W", "X", "Y", "Z">>
\* the place of a letter in the alphabet, 0 for any other character
LetterIndex(ch, letters) ==
    IF \E k \in DOMAIN letters : letters[k] = ch
    THEN CHOOSE k \in DOMAIN letters : letters[k] = ch ELSE 0

\* str.isalpha
IsAlpha(word) ==
    /\ word # <<>>
    /\ \A i \in DOMAIN word :
          LetterIndex(word[i], Alphabet) > 0 \/ LetterIndex(word[i], Capitals) > 0

\* str.capitalize on a word in lower case
Capitalize(word) ==
    IF word = <<>> THEN <<>>
    ELSE <<IF LetterIndex(word[1], Alphabet) > 0
           THEN Capitals[LetterIndex(word[1], Alphabet)] ELSE word[1]>> \o Tail(word)

\* `part in word` for strings
Contains(word, part) ==
    \E i \in 1..(Len(word) - Len(part) + 1) : SubSeq(word, i, i + Len(part) - 1) = part

\* config_manager.py 50-51: the names of the fallback configuration
CommonFirstNames == {<<"j", "o", "h", "n">>, <<"j", "a", "n", "e">>, <<"a", "l", "e", "x">>}
CommonLastNames == {<<"s", "m", "i", "t", "h">>, <<"d", "o", "e">>, <<"j", "o", "h", "n", "s", "o", "n">>}

\* _score_name_split (845-887)
score_name_split(first_part, second_part) ==
    LET vowels(word) == Cardinality({i \in DOMAIN word :
                                        word[i] \in {"a", "e", "i", "o", "u"}})
        \* len(set(word)) < len(word) * 0.7
        repeated(word) ==
            10 * Cardinality({word[i] : i \in DOMAIN word}) < 7 * Len(word)
        non_names == {<<"a", "d", "m", "i", "n">>, <<"t", "e", "s", "t">>, <<"u", "s", "e", "r">>, <<"i", "n", "f", "o">>, <<"m", "a", "i", "l">>, <<"c", "o", "n", "t", "a", "c", "t">>}
    IN  (IF first_part \in CommonFirstNames THEN 10 ELSE 0)
        + (IF second_part \in CommonLastNames THEN 10 ELSE 0)
        + (IF 4 <= Len(first_part) /\ Len(first_part) <= 8 THEN 3 ELSE 0)
        + (IF 4 <= Len(second_part) /\ Len(second_part) <= 10 THEN 3 ELSE 0)
        + (IF vowels(first_part) >= 1 THEN 2 ELSE 0)
        + (IF vowels(second_part) >= 1 THEN 2 ELSE 0)
        - (IF repeated(first_part) THEN 2 ELSE 0)
        - (IF repeated(second_part) THEN 2 ELSE 0)
        - (IF \E word \in non_names : Contains(first_part \o second_part, word)
           THEN 10 ELSE 0)

\* lines 771-775: the first prefix of the list that the user name starts with
\* and is long enough to lose is taken off
CleanedUsername(username) ==
    LET prefixes == <<<<"p", "k">>, <<"m", "r">>, <<"m", "s">>, <<"d", "r">>, <<"p", "r", "o", "f">>>>
        fits == {k \in DOMAIN prefixes :
                    /\ Len(username) > Len(prefixes[k]) + 4
                    /\ SubSeq(username, 1, Len(prefixes[k])) = prefixes[k]}
    IN  IF fits = {} THEN username
        ELSE SubSeq(username,
                    Len(prefixes[CHOOSE k \in fits : \A j \in fits : k <= j]) + 1,
                    Len(username))

\* lines 790-814: the best of the splits of an undelimited user name that
\* score above 0, the leftmost of them among equals
SplitName(cleaned) ==
    LET first(i) == SubSeq(cleaned, 1, i)
        second(i) == SubSeq(cleaned, i + 1, Len(cleaned))
        score(i) == score_name_split(first(i), second(i))
        best_splits == {i \in 3..(Len(cleaned) - 3) :
                           /\ 3 <= Len(first(i)) /\ Len(first(i)) <= 12
                           /\ 3 <= Len(second(i)) /\ Len(second(i)) <= 12
                           /\ IsAlpha(first(i)) /\ IsAlpha(second(i))
                           /\ score(i) > 0}
        best == CHOOSE i \in best_splits :
                    \A j \in best_splits :
                        score(j) < score(i) \/ (score(j) = score(i) /\ i <= j)
    IN  When(Len(cleaned) >= 6 /\ best_splits # {},
             [first |-> Capitalize(first(best)), last |-> Capitalize(second(best))])

\* _extract_name_from_username (763-843); <<>> is the empty string
extract_name_from_username(username) ==
    LET cleaned == CleanedUsername(username)
        \* lines 781-787: the name that a delimiter splits the user name into
        DelimiterName(delimiter) ==
            LET at == {i \in DOMAIN cleaned : cleaned[i] = delimiter}
                i == CHOOSE i \in at : TRUE
            IN  When(Cardinality(at) = 1 /\ i - 1 >= 2 /\ Len(cleaned) - i >= 2,
                     [first |-> Capitalize(SubSeq(cleaned, 1, i - 1)),
                      last |-> Capitalize(SubSeq(cleaned, i + 1, Len(cleaned)))])
        \* lines 817-828: an initial and a surname of at least 4 letters with
        \* a vowel; line 825 looks the capitalized surname up in a list of
        \* words in lower case, which never holds it
        InitialName ==
            When(/\ Len(cleaned) >= 5
                 /\ \A i \in DOMAIN cleaned : LetterIndex(cleaned[i], Alphabet) > 0
                 /\ \E i \in 2..Len(cleaned) : cleaned[i] \in {"a", "e", "i", "o", "u"},
                 [first |-> Capitalize(<<cleaned[1]>>),
                  last |-> Capitalize(Tail(cleaned))])
        \* lines 831-841: the final validation of a possible name
        ReasonableName(name) ==
            /\ 2 <= Len(name.first) /\ Len(name.first) <= 12
            /\ 2 <= Len(name.last) /\ Len(name.last) <= 12
            /\ IsAlpha(name.first) /\ IsAlpha(name.last)
        delimited == DelimiterName(".") \o DelimiterName("_") \o DelimiterName("-")
        split == IF delimited = <<>> THEN SplitName(cleaned) ELSE delimited
        possible_names == IF split = <<>> THEN InitialName ELSE split
        reasonable == SelectSeq(possible_names, ReasonableName)
    IN  IF Len(username) < 3 \/ reasonable = <<>> THEN <<>>
        ELSE reasonable[1].first \o <<" ">> \o reasonable[1].last

Call_extract_name_from_username(username) ==
    /\ Extracted("_extract_name_from_username", [username |-> username],
                 [raised |-> "", name |-> extract_name_from_username(username)])
    /\ UNCHANGED skills_config

(***************************************************************************)
(* The e-mail address of _extract_contact_info (ai_service.py 492-545).    *)
(* A text is given by the spans in it that have the shape of an address,   *)
(* local-part@domain.tld, in the order in which re.findall returns them;   *)
(* the texts of the model hold no "envelpe" artefact of a PDF icon, so     *)
(* that the patterns of lines 496 and 527 are the ones that match.         *)
(***************************************************************************)
\* line 516: `domain in clean_email.lower()` for one of the three domains
OnPlaceholderDomain(address) ==
    \E domain \in {<<"e", "x", "a", "m", "p", "l", "e", ".", "c", "o", "m">>, <<"t", "e", "s", "t", ".", "c", "o", "m">>, <<"d", "o", "m", "a", "i", "n", ".", "c", "o", "m">>} : Contains(address, domain)

\* lines 514 and 541: '@' in the address and '.' in what follows its first '@'
ValidEmail(address) ==
    \E i \in DOMAIN address :
        /\ address[i] = "@"
        /\ \A j \in 1..(i - 1) : address[j] # "@"
        /\ \E j \in (i + 1)..Len(address) : address[j] = "."

\* lines 502-545: the "email" key of contact_info, <<>> when it is not set
extract_email(found) ==
    LET \* lines 510-511: a leading "kp" is rewritten to "pk"
        fixed(address) ==
            IF Len(address) >= 2 /\ SubSeq(address, 1, 2) = <<"k", "p">>
            THEN <<"p", "k">> \o SubSeq(address, 3, Len(address)) ELSE address
        \* lines 502-520: the first match that is valid and not blacklisted
        accepted == SelectSeq([i \in DOMAIN found |-> fixed(found[i])],
                              LAMBDA a : ValidEmail(a) /\ Len(a) > 5
                                         /\ ~OnPlaceholderDomain(a))
        \* lines 523-545: the first match that is valid
        reconstructed == SelectSeq(found, ValidEmail)
    IN  IF accepted # <<>> THEN [email |-> accepted[1]]
        ELSE IF reconstructed # <<>> THEN [email |-> reconstructed[1]]
        ELSE <<>>

Call_extract_contact_info(found) ==
    /\ Extracted("_extract_contact_info", [found |-> found],
                 [raised |-> "", contact_info |-> extract_email(found)])
    /\ UNCHANGED skills_config

(***************************************************************************)
(* _extract_name_from_text (ai_service.py 654-761).  A text is given by    *)
(* what each strategy finds in it; <<>> is a strategy that finds nothing,  *)
(* and a text without an e-mail address has the user name <<>>.            *)
(***************************************************************************)
extract_name_from_text(text) ==
    LET extracted_name == extract_name_from_username(text.email_username)
    IN  CASE text.all_caps_line # <<>> -> text.all_caps_line      \* 661-679
          [] text.first_words # <<>> -> text.first_words          \* 681-691
          [] text.clean_line # <<>> -> text.clean_line            \* 693-716
          [] text.name_label # <<>> -> text.name_label            \* 718-727
          \* 729-748: the user name of the address, then the text before it
          [] text.email_username # <<>> /\ extracted_name # <<>> -> extracted_name
          [] text.email_username # <<>> /\ text.before_email # <<>> -> text.before_email
          [] OTHER -> text.first_part                             \* 750-761

Call_extract_name_from_text(text) ==
    /\ Extracted("_extract_name_from_text", [text |-> text],
                 [raised |-> "", name |-> extract_name_from_text(text)])
    /\ UNCHANGED skills_config

(***************************************************************************)
(* The system.                                                             *)
(***************************************************************************)
StoreAnswers == {"ok", "error"}
ChromaFaults == {"none", "add", "query"}

Next ==
    \/ \E m, x, s \in BOOLEAN : initialize(m, x, s)
    \/ \E d \in Descriptions : create_job_posting(d)
    \/ \E j \in 0..MaxJobs, f \in UploadedFiles, z \in FileSizes : upload_resume(j, f, z)
    \/ \E c \in CandidateIds, r \in BOOLEAN : process_resume_extract(c, r)
    \/ \E c \in CandidateIds, dr \in StoreAnswers, cf \in ChromaFaults,
          dw \in StoreAnswers, hw \in StoreAnswers :
          process_resume_persist(c, dr, cf, dw, hw)
    \/ \E c \in CandidateIds, st \in CandidateStatus : update_candidate_status(c, st)
    \/ \E c \in CandidateIds : start_candidate_screening(c)

Spec == Init /\ [][Next]_vars

(***************************************************************************)
(* The pipeline and its environment: jobs are posted, resumes are uploaded *)
(* for them and processed, with every fault of the stores, of the entity   *)
(* extractor and of the vector index; nobody changes a candidate's status. *)
(***************************************************************************)
PipelineNext ==
    \/ \E m, x, s \in BOOLEAN : initialize(m, x, s)
    \/ \E d \in Descriptions : create_job_posting(d)
    \/ \E j \in JobIds, f \in UploadedFiles : upload_resume(j, f, 0)
    \/ \E c \in CandidateIds, r \in BOOLEAN : process_resume_extract(c, r)
    \/ \E c \in CandidateIds, dr \in StoreAnswers, cf \in ChromaFaults,
          dw \in StoreAnswers, hw \in StoreAnswers :
          process_resume_persist(c, dr, cf, dw, hw)

PipelineSpec == Init /\ [][PipelineNext]_vars

(***************************************************************************)
(* The upload endpoint and what it depends on: the job postings, and the   *)
(* background task it schedules, which starts on its own.                  *)
(***************************************************************************)
UploadNext ==
    \/ \E d \in Descriptions : create_job_posting(d)
    \/ \E j \in 0..MaxJobs, f \in UploadedFiles, z \in FileSizes : upload_resume(j, f, z)
    \/ \E c \in CandidateIds : process_resume_extract(c, FALSE)

UploadSpec == Init /\ [][UploadNext]_vars

(***************************************************************************)
(* The system with repeated runs: the pipeline is called again for a       *)
(* candidate whose run has ended.  The environment is the one in which a   *)
(* repetition is meant to change nothing: the stores answer and no library *)
(* call is made to raise.                                                  *)
(***************************************************************************)
RerunNext ==
    \/ \E m, x, s \in BOOLEAN : initialize(m, x, s)
    \/ \E d \in Descriptions : create_job_posting(d)
    \/ \E j \in JobIds, f \in UploadedFiles : upload_resume(j, f, 0)
    \/ \E c \in CandidateIds : process_resume_extract(c, FALSE)
    \/ \E c \in CandidateIds : process_resume_persist(c, "ok", "none", "ok", "ok")
    \/ \E c \in CandidateIds : reprocess(c)
    \/ \E c \in CandidateIds : update_candidate_status(c, "hired")

RerunSpec == Init /\ [][RerunNext]_vars

(***************************************************************************)
(* The scoring engine on its own: the service is initialized and asked for *)
(* scores, in any order.                                                   *)
(***************************************************************************)
ScoreResumes == {"", "x", "RESUME_A", "RESUME_B", "RESUME_C", "JOB_D"}
ScoreJobs == {"", "JOB_D", "JOB_E"}

\* a service that holds the model does not initialize again: the answers of
\* an initialization are drawn only for a service without the model
InitializationAnswers(m, x, s) == embedding_model => (m /\ x /\ s)

ScoreNext ==
    \/ \E m, x, s \in BOOLEAN : initialize(m, x, s)
    \/ \E r \in ScoreResumes, j \in ScoreJobs, m, x, s, e \in BOOLEAN :
          /\ InitializationAnswers(m, x, s)
          /\ calculate_resume_score(r, j, m, x, s, e)

ScoreSpec == Init /\ [][ScoreNext]_vars

(***************************************************************************)
(* The score endpoint: the service is initialized and clients ask for the  *)
(* scores of candidates, in any order.                                     *)
(***************************************************************************)
\* the ids of the requests, and what the store answers the two lookups of
\* get_candidate_ai_score
ScoredCandidateIds == {0, 1, 2}
ScoredCandidateDocs ==
    {NoneVal} \cup {[extractedText |-> r] : r \in {"", "x", "RESUME_A", "RESUME_B"}}
ScoredJobDocs == {NoneVal, [description |-> "JOB_D"], [description |-> "JOB_E"]}

AiScoreNext ==
    \/ \E m, x, s \in BOOLEAN : initialize(m, x, s)
    \/ \E c \in ScoredCandidateIds, cd \in ScoredCandidateDocs,
          jd \in ScoredJobDocs, m, x, s, e \in BOOLEAN :
          /\ InitializationAnswers(m, x, s)
          /\ get_candidate_ai_score(c, cd, jd, m, x, s, e)

AiScoreSpec == Init /\ [][AiScoreNext]_vars

(***************************************************************************)
(* The batch scorer on its own: the service is initialized and asked to    *)
(* rank lists of candidates, in any order.                                 *)
(***************************************************************************)
BatchTexts == {"x", "RESUME_A"}
BatchJobs == {"JOB_D"}

\* a candidate with an id, whose text changes between calls, and a candidate
\* without an id
BatchCandidates ==
    {[id |-> "c1", text |-> t] : t \in BatchTexts} \cup {[text |-> "RESUME_A"]}

BatchLists == UNION {[1..n -> BatchCandidates] : n \in 0..MaxBatch}

BatchNext ==
    \/ \E m, x, s \in BOOLEAN : initialize(m, x, s)
    \/ \E j \in BatchJobs, l \in BatchLists, m, x, s, e \in BOOLEAN :
          /\ InitializationAnswers(m, x, s)
          /\ ScoreCandidates(j, l, m, x, s, e)

BatchSpec == Init /\ [][BatchNext]_vars

(***************************************************************************)
(* The embedding engine on its own: the service is initialized and its     *)
(* embedding and index operations are called, in any order.                *)
(***************************************************************************)
EngineTexts == {"x", "RESUME_A", "JOB_D"}
EngineTextLists == {<<t>> : t \in EngineTexts} \cup {<<"x", "RESUME_A">>}
EngineIds == {ObjectIdStr(1), ObjectIdStr(2)}

EngineNext ==
    \/ \E m, x, s \in BOOLEAN : initialize(m, x, s)
    \/ \E l \in EngineTextLists : Call_embed_texts(l)
    \/ \E t \in EngineTexts : Call_generate_embedding(t)
    \/ \E c \in EngineIds, t \in EngineTexts : Call_store_resume_embedding(c, t)
    \/ \E t \in EngineTexts : Call_search_similar_candidates(t)

EngineSpec == Init /\ [][EngineNext]_vars

(***************************************************************************)
(* Properties of the pipeline and of the upload.                           *)
(***************************************************************************)
\* the step of candidate c's run that ends it
PersistStep(c) ==
    /\ background_tasks[c].pc = "awaiting_job"
    /\ background_tasks'[c].pc = "done"

\* the run of candidate c has ended with the final update made
Persisted(c) ==
    /\ background_tasks[c].pc = "done"
    /\ background_tasks[c].outcome = "persisted"

\* C2: the step that ends a pipeline run leaves the candidate's status as it
\* was, so a status the API layer set during the run is still stored after
\* the run's final update.
C2_StatusSurvivesPipeline ==
    [][\A c \in CandidateIds :
          PersistStep(c) => candidates'[c].status = candidates[c].status]_vars

\* C3: a run ends in its final update unless the store fails it (the job
\* lookup or the update raises), whatever its entity stage and its embedding
\* stage did; and the final update writes the extracted text, and a
\* matchScore of 0 unless the embedding stage completed.
C3_StageFailureIsolated ==
    \A c \in CandidateIds :
        LET task == background_tasks[c]
        IN  task.pc = "done" =>
                /\ task.outcome \in {"persisted", "read_failed", "write_failed"}
                /\ task.outcome = "persisted" =>
                      /\ candidates[c].extractedText = task.extracted_text
                      /\ candidates[c].chromaVectorId = task.record.chromaVectorId
                      /\ candidates[c].matchScore = task.record.matchScore
                      /\ task.embedding # "completed" => candidates[c].matchScore = 0

\* a final update made after both stages failed, the second one at the query
\* that follows the insertion into the index
C3_Witness ==
    \E c \in CandidateIds :
        /\ Persisted(c)
        /\ background_tasks[c].entities_failed
        /\ background_tasks[c].embedding = "failed"
        /\ background_tasks[c].injected = "query"
        /\ candidates[c].extractedText = "RESUME_A"
        /\ candidates[c].matchScore = 0

\* C4: a run that has ended has written its result fields to the candidate
\* record unless a write to the store failed (the functions that read the
\* uploaded file never raise).
C4_RunWritesResults ==
    \A c \in CandidateIds :
        background_tasks[c].pc = "done" =>
            background_tasks[c].outcome \in {"persisted", "write_failed"}

\* the entries of the vector index for candidate c
EntriesOf(collection, c) == {e \in collection : e.id = ObjectIdStr(c)}

\* the run before this one made the final update and none of its stages failed
CleanRun(run) ==
    /\ run # NoneVal
    /\ run.outcome = "persisted"
    /\ ~run.entities_failed
    /\ run.embedding # "failed"

C6_SkillsStored ==
    \A c \in CandidateIds :
        Persisted(c) =>
            /\ "skills" \in DOMAIN background_tasks[c].record
            /\ background_tasks[c].record.skills = background_tasks[c].entities_data.skills

\* C7: the step that ends a run changes the name only to an extracted name
\* longer than 2 characters, the email and the phone only to an extracted
\* value, and then only in the final update; otherwise the field keeps the
\* value stored before the step.
C7_ContactOverwriteOnlyWhenExtracted ==
    [][\A c \in CandidateIds :
          PersistStep(c) =>
              LET entities_data == background_tasks[c].entities_data
                  contact_info == Get(entities_data, "contact_info", NoneVal)
                  name == CandidateName(entities_data)
                  written == background_tasks'[c].outcome = "persisted"
              IN  /\ candidates'[c].name =
                         IF written /\ Len(name) > 2 THEN name
                         ELSE candidates[c].name
                  /\ candidates'[c].email =
                         IF written /\ "email" \in DOMAIN contact_info
                         THEN contact_info.email ELSE candidates[c].email
                  /\ candidates'[c].phone =
                         IF written /\ "phone" \in DOMAIN contact_info
                         THEN contact_info.phone ELSE candidates[c].phone]_vars

\* a final update that found a name of 2 characters and a phone number, and
\* no email: the phone is written, name and email are those of the upload
C7_Witness ==
    \E c \in CandidateIds :
        /\ Persisted(c)
        /\ CandidateName(background_tasks[c].entities_data) = "Bo"
        /\ candidates[c].name = TempName
        /\ candidates[c].email = TempEmail
        /\ candidates[c].phone = "12345-67890"

\* the request of an upload meets the four conditions of upload_resume
ValidUpload(request) ==
    /\ ObjectIdIsValid(request.job_id)
    /\ job_postings[request.job_id] # NoneVal
    /\ LowerExt(request.filename) \in {".pdf", ".docx", ".txt"}
    /\ (request.size = 0 \/ request.size <= MAX_FILE_SIZE)

\* C8: a step that answers an upload or adds a candidate is an upload whose
\* request, if it meets the four conditions, is answered 200 with one new
\* candidate record and one run for it that is scheduled and has not started,
\* and otherwise is answered with an error, adds no record and schedules no run.
C8_UploadAcceptedIff ==
    [][( \/ response' # response
         \/ \E c \in CandidateIds : candidates[c] = NoneVal /\ candidates'[c] # NoneVal )
       => LET request == response'.request
          IN  IF ValidUpload(request)
              THEN /\ response'.code = 200
                   /\ \E c \in CandidateIds :
                        /\ response'.candidateId = ObjectIdStr(c)
                        /\ candidates[c] = NoneVal
                        /\ candidates'[c] = NewCandidate(request.job_id, request.filename)
                        /\ background_tasks[c].pc = "none"
                        /\ background_tasks'[c].pc = "scheduled"
                        /\ background_tasks'[c].job_id = request.job_id
                        /\ \A o \in CandidateIds \ {c} :
                              /\ candidates'[o] = candidates[o]
                              /\ background_tasks'[o] = background_tasks[o]
              ELSE /\ response'.code \in {400, 404}
                   /\ candidates' = candidates
                   /\ background_tasks' = background_tasks
                   /\ uploads' = uploads]_vars

\* an upload of a .DOCX file of exactly the size limit has been accepted and
\* its run has not started
C8_Witness ==
    /\ response # NoneVal
    /\ response.code = 200
    /\ response.request.filename = "CV.DOCX"
    /\ response.request.size = MAX_FILE_SIZE
    /\ \E c \in CandidateIds :
          /\ response.candidateId = ObjectIdStr(c)
          /\ background_tasks[c].pc = "scheduled"
          /\ candidates[c].extractedText = ""

\* C9: a run on a plain-text file that is not empty does not end with an empty
\* extractedText and the scoring stage skipped.
C9_PlainTextExtracted ==
    \A c \in CandidateIds :
        ( /\ Persisted(c)
          /\ LowerExt(uploads[c].filename) = ".txt"
          /\ uploads[c].body # "" )
        => ~( /\ candidates[c].extractedText = ""
              /\ background_tasks[c].embedding = "skipped" )

(***************************************************************************)
(* Properties of the scoring engine.                                       *)
(***************************************************************************)
\* C1: a tier A result depends on the two texts of the call only: it is the
\* result a service with an empty embedding cache gives for them, in which
\* the vector compared with the job is the embedding of the resume text.
C1_ScoreIsPure ==
    (score_result # NoneVal /\ score_result.tier = "A") =>
        score_result.result =
            ScoreWithEmbeddings(score_result.request.resume_text,
                                score_result.request.job_description, <<>>).result

ScoreFields ==
    {"overallScore", "resumeScore", "skillsMatch", "experienceMatch",
     "confidenceLevel"}

\* C10: in the result of every call of calculate_resume_score, whatever the
\* tier that answered, overallScore, resumeScore, skillsMatch, experienceMatch
\* and confidenceLevel are integers from 0 to 100.
C10_ScoresWithinRange ==
    score_result # NoneVal =>
        \A k \in ScoreFields : score_result.result[k] \in 0..100

\* a tier A result in which three component scores sit at the cap of 100
C10_Witness ==
    /\ score_result # NoneVal
    /\ score_result.tier = "A"
    /\ score_result.result.resumeScore = 100
    /\ score_result.result.skillsMatch = 100
    /\ score_result.result.experienceMatch = 100
    /\ score_result.result.confidenceLevel = 99

\* C11: in every result of calculate_resume_score, the result for an empty
\* input included, recommendedAction is the action the thresholds give for
\* overallScore: hire from 80, interview from 65, maybe from 50, reject below.
C11_ActionFollowsThresholds ==
    score_result # NoneVal =>
        LET overall == score_result.result.overallScore
        IN  score_result.result.recommendedAction =
                IF overall >= 80 THEN "hire"
                ELSE IF overall >= 65 THEN "interview"
                ELSE IF overall >= 50 THEN "maybe"
                ELSE "reject"

\* C12: every result of calculate_resume_score has at most 4 strengths, at
\* most 3 weaknesses and at most 3 insights.
C12_InsightListsBounded ==
    score_result # NoneVal =>
        /\ Len(score_result.result.strengths) <= 4
        /\ Len(score_result.result.weaknesses) <= 3
        /\ Len(score_result.result.aiInsights) <= 3

\* the fields every result has to carry
RequiredScoreFields ==
    {"resumeScore", "skillsMatch", "experienceMatch", "overallScore",
     "strengths", "weaknesses", "aiInsights", "confidenceLevel",
     "recommendedAction"}

C14_ModelUsedNamesTier ==
    score_result # NoneVal =>
        /\ "modelUsed" \in DOMAIN score_result.result
        /\ score_result.tier = "C" => score_result.result.modelUsed # ModelUsed

\* the embedding-cache entries a scoring run read or wrote
EntriesTouched(run) == run.looked_up \cup run.saved

\* C16: two scoring runs of the score endpoint for distinct candidates, the
\* one served right after the other, touch no embedding-cache entry in common.
C16_DistinctCandidatesDistinctEntries ==
    [][( /\ score_result # NoneVal
         /\ score_result' # score_result
         /\ score_result'.request.candidate_id # score_result.request.candidate_id )
       => EntriesTouched(score_result) \cap EntriesTouched(score_result') = {}]_vars

(***************************************************************************)
(* Properties of the batch scorer.                                         *)
(***************************************************************************)
\* the step is a call of the batch scorer that returned
BatchReturned ==
    /\ score_result' # score_result
    /\ score_result'.call = "score_candidates_huggingface"
    /\ score_result'.raised = ""

\* the id under which the i-th candidate of a list is cached
CandidateIdAt(list, i) == Get(list[i], "id", TempId(i))

C19_BatchRanked ==
    (score_result # NoneVal /\ score_result.raised = "") =>
        LET list == score_result.request.candidates
            results == score_result.results
            ids == {CandidateIdAt(list, i) : i \in 1..Len(list)}
        IN  /\ Len(results) = Len(list)
            /\ \A k \in ids :
                  Cardinality({n \in 1..Len(results) : results[n].id = k})
                      = Cardinality({i \in 1..Len(list) : CandidateIdAt(list, i) = k})
            /\ \A n \in 1..Len(results) - 1 :
                  QLe(results[n + 1].score, results[n].score)

\* a list given with the weaker candidate first has been answered with the
\* stronger candidate first
C19_Witness ==
    /\ score_result # NoneVal
    /\ score_result.raised = ""
    /\ Len(score_result.results) = 2
    /\ score_result.request.candidates[1].text = "x"
    /\ score_result.results[1].id = CandidateIdAt(score_result.request.candidates, 2)
    /\ QLt(score_result.results[2].score, score_result.results[1].score)

(***************************************************************************)
(* Properties of the embedding engine.                                     *)
(***************************************************************************)
\* C17: every vector that embed_texts or generate_embedding returns is the
\* embedding of the preprocessed text (skills, experience and education
\* sections in front of the truncated cleaned text), not of the text as given.
C17_EmbeddingsArePreprocessed ==
    (score_result # NoneVal
     /\ score_result.call \in {"embed_texts", "generate_embedding"}
     /\ score_result.raised = "") =>
        \A i \in 1..Len(score_result.vectors) : score_result.vectors[i].preprocessed

\* C18: a call of embed_texts or generate_embedding on a service without the
\* embedding model, and a call of store_resume_embedding or
\* search_similar_candidates on a service without the vector index, raises
\* the initialization error and leaves the embedding cache and the vector
\* index as they were.
C18_UninitializedCallsFail ==
    [][( /\ score_result' # score_result
         /\ \/ /\ score_result'.call \in {"embed_texts", "generate_embedding"}
               /\ ~embedding_model
            \/ /\ score_result'.call \in {"store_resume_embedding",
                                           "search_similar_candidates"}
               /\ ~chroma_collection )
       => /\ score_result'.raised =
                IF score_result'.call \in {"embed_texts", "generate_embedding"}
                THEN "ValueError: Embedding model not initialized"
                ELSE "ValueError: ChromaDB not initialized"
          /\ DOMAIN score_result' = {"call", "request", "raised"}
          /\ embed_cache' = embed_cache
          /\ resumes' = resumes]_vars

\* the model is loaded but the index could not be opened: a resume was given
\* to store_resume_embedding, the call raised and the index holds nothing
C18_Witness ==
    /\ score_result # NoneVal
    /\ embedding_model
    /\ ~chroma_collection
    /\ score_result.call = "store_resume_embedding"
    /\ score_result.request.text = "RESUME_A"
    /\ score_result.raised = "ValueError: ChromaDB not initialized"
    /\ resumes = {}
    /\ embed_cache = <<>>

(***************************************************************************)
(* Properties of the text extraction.                                      *)
(***************************************************************************)
\* C20: the text a run has extracted from a PDF file that can be read is the
\* cleaned output of one backend, a single reading of the file, if what a
\* backend reads from the file exceeds the threshold of PyPDF2 (100), of
\* pdfplumber (50) or of pymupdf (20), and is empty if it exceeds none.
C20_PdfTextFromOneBackend ==
    \A c \in CandidateIds :
        ( /\ "extracted_text" \in DOMAIN background_tasks[c]
          /\ LowerExt(uploads[c].filename) = ".pdf"
          /\ ~uploads[c].corrupt )
        => LET own == BodyLen(uploads[c].body)
           IN  background_tasks[c].extracted_text =
                   IF own > 100 \/ own > 50 \/ own > 20
                   THEN CleanExtractedText(uploads[c].body, 1)
                   ELSE ""


(***************************************************************************)
(* Resumes of candidates with the same experience scored against a job     *)
(* that asks for eight skills: RESUME_C names all of them, RESUME_P two of *)
(* them and nothing else, RESUME_Q one of them among nine skills.          *)
(***************************************************************************)
MatchResumes == {"RESUME_C", "RESUME_P", "RESUME_Q"}
MatchJobs == {"JOB_D", "JOB_F"}

MatchNext ==
    \/ \E m, x, s \in BOOLEAN : initialize(m, x, s)
    \/ \E r \in MatchResumes, j \in MatchJobs, m, x, s, e \in BOOLEAN :
          /\ InitializationAnswers(m, x, s)
          /\ calculate_resume_score(r, j, m, x, s, e)

MatchSpec == Init /\ [][MatchNext]_vars

(***************************************************************************)
(* The extractors on their own: the service is initialized, the            *)
(* configuration is reloaded and the extractors are called, in any order.  *)
(***************************************************************************)
FileBodies == {"", "x", "RESUME_B", "RESUME_A"}
EntityTexts == {"", "x", "RESUME_A", "RESUME_B", "RESUME_L"}
\* texts by what the name strategies find in them: each of the six places
\* holds its own name or none, and the text holds no address or one whose
\* user name is mgarcia.dev or jdoe123xyz
NameTexts ==
    {text \in [all_caps_line : {<<>>, <<"A", "l", "i", "c", "e", " ", "A", "l", "p", "h", "a">>},
               first_words : {<<>>, <<"B", "o", "b", " ", "B", "r", "a", "v", "o">>},
               clean_line : {<<>>, <<"C", "a", "r", "o", "l", " ", "C", "h", "a", "r", "l", "i", "e">>},
               name_label : {<<>>, <<"D", "a", "v", "e", " ", "D", "e", "l", "t", "a">>},
               email_username : {<<>>, <<"m", "g", "a", "r", "c", "i", "a", ".", "d", "e", "v">>, <<"j", "d", "o", "e", "1", "2", "3", "x", "y", "z">>},
               before_email : {<<>>, <<"M", "a", "r", "i", "a", " ", "G", "a", "r", "c", "i", "a">>},
               first_part : {<<>>, <<"F", "r", "a", "n", "k", " ", "F", "o", "x", "t", "r", "o", "t">>}] :
        text.email_username = <<>> => text.before_email = <<>>}

\* the addresses found in a text
EmailTexts ==
    LET addresses == {<<"j", "o", "h", "n", ".", "d", "o", "e", "@", "e", "x", "a", "m", "p", "l", "e", ".", "o", "r", "g">>,
                      <<"t", "e", "s", "t", "@", "e", "x", "a", "m", "p", "l", "e", ".", "c", "o", "m">>,
                      <<"k", "p", "a", "t", "e", "l", "@", "c", "o", "r", "p", ".", "o", "r", "g">>}
    IN  UNION {[1..n -> addresses] : n \in 0..2}
Usernames ==
    {<<"j", "a", "n", "e", ".", "d", "o", "e">>,
     <<"j", "a", "n", "e", "_", "d", "o", "e">>,
     <<"j", "d", "o", "e", "1", "2", "3", "x", "y", "z">>,
     <<"b", "s", "h", "a", "r", "m", "a">>,
     <<"p", "k", "u", "m", "a", "r", ".", "s", "i", "n", "g", "h">>,
     <<"d", "r", ".", "j", "o", "n", "e", "s">>,
     <<"j", "o", "h", "n", "s", "m", "i", "t", "h">>,
     <<"m", "j", "o", "h", "n", "s", "o", "n">>,
     <<"t", "e", "s", "t", "u", "s", "e", "r">>,
     <<"j", ".", "d">>,
     <<"a", "b">>,
     <<"a", "b", "c", "d", "e">>,
     <<"a", "-", "b", "_", "c", "d", ".", "e", "f">>}

ExtractionNext ==
    \/ \E m, x, s \in BOOLEAN : initialize(m, x, s)
    \/ \E b \in FileBodies, f \in [1..3 -> BackendFaults] :
          Call_extract_text_from_pdf(b, f)
    \/ \E b \in FileBodies, f \in BackendFaults : Call_extract_text_from_docx(b, f)
    \/ \E t \in EntityTexts, f \in SkillsFiles : Call_extract_entities_from_resume(t, f)
    \/ reload_configs
    \/ \E u \in Usernames : Call_extract_name_from_username(u)
    \/ \E f \in EmailTexts : Call_extract_contact_info(f)
    \/ \E t \in NameTexts : Call_extract_name_from_text(t)

ExtractionSpec == Init /\ [][ExtractionNext]_vars

(***************************************************************************)
(* Properties of the extractors.                                           *)
(***************************************************************************)
\* the texts an extractor can return for the files of the model
ExtractedTexts ==
    {CleanExtractedText(b, n) : b \in FileBodies, n \in 0..3}

\* C21: a call of extract_text_from_pdf or extract_text_from_docx raises
\* nothing and returns a string, whatever its backends raise; a PDF backend
\* that raises does not keep the backends after it from reading the file,
\* and a file no backend reads gives the empty string.
C21_ExtractorsNeverRaise ==
    (score_result # NoneVal
        /\ score_result.call \in {"extract_text_from_pdf", "extract_text_from_docx"}) =>
        LET body == score_result.request.body
            faults == score_result.request.faults
        IN  /\ score_result.raised = ""
            /\ score_result.text \in ExtractedTexts
            /\ (\A i \in DOMAIN faults : faults[i] # "") => score_result.text = ""
            /\ ((\E i \in DOMAIN faults : faults[i] = "") /\ BodyLen(body) > 100)
                  => score_result.text = CleanExtractedText(body, 1)

\* PyPDF2 is missing, and the call returns what pdfplumber reads
C21_Witness ==
    /\ score_result # NoneVal
    /\ score_result.call = "extract_text_from_pdf"
    /\ score_result.request = [body |-> "RESUME_A",
                               faults |-> <<"ImportError", "", "Exception">>]
    /\ score_result.raised = ""
    /\ score_result.text = "RESUME_A"


\* C22: a call of extract_entities_from_resume raises nothing, whichever of
\* its strategies fails, and returns the skills, the contact information and
\* the person names it could find.
C22_EntitiesNeverRaise ==
    (score_result # NoneVal /\ score_result.call = "extract_entities_from_resume") =>
        /\ score_result.raised = ""
        /\ {"skills", "contact_info", "person_names"} \subseteq DOMAIN score_result.entities

\* the step is a call of extract_entities_from_resume that returns, made
\* after a call of it for the same text that returned
SecondExtraction ==
    /\ score_result # NoneVal
    /\ score_result.call = "extract_entities_from_resume"
    /\ score_result'.call = "extract_entities_from_resume"
    /\ score_result.raised = ""
    /\ score_result'.raised = ""
    /\ score_result'.request = score_result.request

\* C26 as the claim states it: two calls of extract_entities_from_resume for
\* the same text return the same output, whatever was called between them.
C26_ExtractionRepeatsAlways ==
    [][SecondExtraction => score_result'.entities = score_result.entities]_vars

\* C26, amended: two calls of extract_entities_from_resume for the same text
\* return the same output if the second call finds spaCy as the first found
\* it (loaded or not) and finds the skill dictionary still cached.
C26_ExtractionRepeats ==
    [][(SecondExtraction /\ nlp = score_result.ner /\ skills_config # NoneVal)
          => score_result'.entities = score_result.entities]_vars

\* a call for RESUME_A has been answered with the cached dictionary, which an
\* earlier call loaded
C26_Witness ==
    /\ score_result # NoneVal
    /\ score_result.call = "extract_entities_from_resume"
    /\ score_result.request.text = "RESUME_A"
    /\ score_result.raised = ""
    /\ score_result.cached
    /\ score_result.entities.skills = {"Python", "Fastapi"}


\* the two words that one delimiter joins into the user name, if it is made so
JoinedParts(username) ==
    {<<SubSeq(username, 1, i - 1), SubSeq(username, i + 1, Len(username))>> :
        i \in {i \in DOMAIN username :
                  /\ username[i] \in {".", "_", "-"}
                  /\ \A j \in DOMAIN username \ {i} : username[j] \notin {".", "_", "-"}}}

\* a split of the user name has a first part or a second part in the dictionary
DictionaryHit(username) ==
    \E i \in 1..(Len(username) - 1) :
        \/ SubSeq(username, 1, i) \in CommonFirstNames
        \/ SubSeq(username, i + 1, Len(username)) \in CommonLastNames

\* C25: _extract_name_from_username returns "First Last" for a user name made
\* of two words of at least 2 letters joined by '.', '_' or '-', and returns
\* the empty string for a user name with no delimiter and no dictionary hit.
C25_NameFromUsername ==
    (score_result # NoneVal /\ score_result.call = "_extract_name_from_username") =>
        LET username == score_result.request.username
        IN  /\ \A parts \in JoinedParts(username) :
                  (/\ IsAlpha(parts[1]) /\ Len(parts[1]) >= 2
                   /\ IsAlpha(parts[2]) /\ Len(parts[2]) >= 2)
                  => score_result.name =
                        Capitalize(parts[1]) \o <<" ">> \o Capitalize(parts[2])
            /\ (JoinedParts(username) = {} /\ ~DictionaryHit(username)
                  /\ \A i \in DOMAIN username : username[i] \notin {".", "_", "-"})
                  => score_result.name = <<>>


\* C24: an e-mail address that _extract_contact_info reports has an '@'
\* followed by a dotted domain and is not on a placeholder domain, and a
\* text whose addresses are all on placeholder domains gives no "email".
C24_EmailPlausible ==
    (score_result # NoneVal /\ score_result.call = "_extract_contact_info") =>
        LET found == score_result.request.found
            contact_info == score_result.contact_info
        IN  /\ "email" \in DOMAIN contact_info =>
                  /\ ValidEmail(contact_info.email)
                  /\ ~OnPlaceholderDomain(contact_info.email)
            /\ (\A i \in DOMAIN found : OnPlaceholderDomain(found[i]))
                  => "email" \notin DOMAIN contact_info


\* the first of a list of names that is not empty, <<>> if there is none
FirstFound(names) ==
    IF \E i \in DOMAIN names : names[i] # <<>>
    THEN names[CHOOSE i \in DOMAIN names :
                   names[i] # <<>> /\ \A j \in 1..(i - 1) : names[j] = <<>>]
    ELSE <<>>

\* C23: _extract_name_from_text returns what the first of its strategies that
\* finds a name finds, in the order (a) to (f); within (e) the name in the
\* text before the address comes before the name made from its user name.
C23_NameStrategiesInOrder ==
    (score_result # NoneVal /\ score_result.call = "_extract_name_from_text") =>
        LET text == score_result.request.text
        IN  score_result.name =
                FirstFound(<<text.all_caps_line, text.first_words, text.clean_line,
                             text.name_label, text.before_email,
                             extract_name_from_username(text.email_username),
                             text.first_part>>)


(***************************************************************************)
(* Properties of the component scores.                                     *)
(***************************************************************************)
\* the skills the job asks for that are found in the resume
RequiredSkillsFound(request) ==
    SkillsOf(request.resume_text) \cap SkillsOf(request.job_description)

\* C27: of two resumes scored one after the other against the same job by
\* the same tier, with the same experience, the one in which a strict
\* superset of the job's skills is found has a skillsMatch at least as high.
C27_SkillsMatchMonotone ==
    [][( /\ score_result # NoneVal
         /\ score_result.tier \in {"A", "C"}
         /\ score_result'.tier = score_result.tier
         /\ score_result'.request.job_description = score_result.request.job_description
         /\ ExperienceYearsOf(score_result'.request.resume_text)
               = ExperienceYearsOf(score_result.request.resume_text)
         /\ RequiredSkillsFound(score_result.request)
               \subseteq RequiredSkillsFound(score_result'.request)
         /\ RequiredSkillsFound(score_result.request)
               # RequiredSkillsFound(score_result'.request) )
       => score_result'.result.skillsMatch >= score_result.result.skillsMatch]_vars


\* the weighted blend of the component scores of a result, in hundredths:
\* lines 1383-1388 for tier A, lines 1689-1693 for tier C (from the component
\* scores as they are reported, which are not above the blended ones)
BlendedHundredths(run) ==
    IF run.tier = "A"
    THEN 40 * run.result.semanticSimilarity + 25 * run.result.resumeScore
         + 20 * run.result.skillsMatch + 15 * run.result.experienceMatch
    ELSE 40 * run.result.skillsMatch + 35 * run.result.experienceMatch
         + 25 * run.result.resumeScore

\* C28: in a result of the embedding path or of the heuristic path, a blend
\* of the component scores above 85 is reported as an overall score from 85
\* to 95.
C28_HighScoresCompressed ==
    (score_result # NoneVal /\ score_result.tier \in {"A", "C"}
        /\ BlendedHundredths(score_result) > 8500) =>
        /\ 85 <= score_result.result.overallScore
        /\ score_result.result.overallScore <= 95


\* the place of a status in the order new, screening, interview, hired or
\* rejected
StatusRank(st) ==
    CASE st = "new" -> 0
      [] st = "screening" -> 1
      [] st = "interview" -> 2
      [] OTHER -> 3

\* C29: no step moves a stored candidate to a status that comes earlier in
\* the order new, screening, interview, hired or rejected.
C29_StatusMovesForward ==
    [][\A c \in CandidateIds :
          (candidates[c] # NoneVal /\ candidates'[c] # NoneVal) =>
              StatusRank(candidates'[c].status) >= StatusRank(candidates[c].status)]_vars


(***************************************************************************)
(* The pipeline beside other runs: the stores answer and no library call   *)
(* is made to raise, and the run of another candidate stores its resume    *)
(* in the same index (jobs.py 153-157) at any moment.                      *)
(***************************************************************************)
OtherCandidateId == ObjectIdStr(MaxCandidates + 1)
OtherResumes == {"x", "RESUME_B", "RESUME_C"}

IndexNext ==
    \/ \E m, x, s \in BOOLEAN : initialize(m, x, s)
    \/ \E d \in Descriptions : create_job_posting(d)
    \/ \E j \in JobIds, f \in UploadedFiles : upload_resume(j, f, 0)
    \/ \E c \in CandidateIds : process_resume_extract(c, FALSE)
    \/ \E c \in CandidateIds : process_resume_persist(c, "ok", "none", "ok", "ok")
    \/ \E t \in OtherResumes : Call_store_resume_embedding(OtherCandidateId, t)

IndexSpec == Init /\ [][IndexNext]_vars

\* C30: after a run whose embedding stage completed, the matchScore stored
\* for the candidate is the similarity of the candidate's own resume text to
\* the description of the job, whatever else the index holds.
C30_MatchScoreIsOwnSimilarity ==
    \A c \in CandidateIds :
        LET task == background_tasks[c]
        IN  (Persisted(c) /\ task.embedding = "completed") =>
                candidates[c].matchScore =
                    CosSimPct(generate_embedding(job_postings[task.job_id].description),
                              generate_embedding(task.extracted_text))

=============================================================================
